---- MODULE Spec2Model ----
(***************************************************************************)
(* cdl: a configuration definition language.  A flat Template (rule name   *)
(* -> grammar string | validator function | EnumType) is compiled into a   *)
(* CompiledTemplate; Validate walks a decoded instance tree against it and *)
(* optionally feeds a Configurator (callbacks or destinations).            *)
(*                                                                         *)
(* Go strings are modelled as sequences of one-character strings, so that  *)
(* the regular expressions of the compiler are computed, not assumed.      *)
(* Go values (interface{}) are pairs <<dynamic type, payload>>.             *)
(***************************************************************************)
EXTENDS Integers, Sequences, FiniteSets, TLC

VARIABLES pc, template, ct, cerr, instance, configurator, result, again, dests, calls,
          validators, heap, stack, held

vars == <<pc, template, ct, cerr, instance, configurator, result, again, dests, calls,
          validators, heap, stack, held>>

(***************************************************************************)
(* Bounds of the model                                                     *)
(***************************************************************************)
\* longest sequence ([]interface{}) an instance holds
MaxLen == 3
\* largest number of modifiers written after one map-spec child name
MaxMods == 2
\* deepest nesting of the nodes a Path is pushed for
MaxDepth == 4
\* largest number of arrays the pushes of one run allocate
MaxArrays == 4

(***************************************************************************)
(* Dynamically typed values: the type tag first, then the payload          *)
(***************************************************************************)
Tag(k, v) == <<k, v>>

Kind(x) == x[1]

Val(x) == x[2]

(***************************************************************************)
(* Characters and strings                                                  *)
(***************************************************************************)
Digits == {"0", "1", "2", "3", "4", "5", "6", "7", "8", "9"}

Letters ==
  {"a", "b", "c", "d", "e", "f", "g", "h", "i", "j", "k", "l", "m",
   "n", "o", "p", "q", "r", "s", "t", "u", "v", "w", "x", "y", "z",
   "A", "B", "C", "D", "E", "F", "G", "H", "I", "J", "K", "L", "M",
   "N", "O", "P", "Q", "R", "S", "T", "U", "V", "W", "X", "Y", "Z"}

\* the regexp class \w
IsWord(c) == c \in Letters \cup Digits \cup {"_"}

\* the regexp class \d
IsDigit(c) == c \in Digits

\* unicode.IsSpace(r): tab, line feed, vertical tab, form feed, carriage
\* return, space, U+0085, U+00A0, U+1680, and the further spaces of the
\* category Z, which a string of this notation cannot hold and which are
\* written by their names
IsSpace(c) ==
  c \in {"\t", "\n", "", "\f", "\r", " ", "", " ", " ",
         "U+2000", "U+2001", "U+2002", "U+2003", "U+2004", "U+2005", "U+2006", "U+2007",
         "U+2008", "U+2009", "U+200A", "U+2028", "U+2029", "U+202F", "U+205F", "U+3000"}

\* unicode.IsSpace(r) || r == '|'
spaceOrBar(c) == IsSpace(c) \/ c = "|"

HasPrefix(s, p) == Len(s) >= Len(p) /\ SubSeq(s, 1, Len(p)) = p

TrimPrefix(s, p) == IF HasPrefix(s, p) THEN SubSeq(s, Len(p) + 1, Len(s)) ELSE s

\* s contains sub as a contiguous substring
Contains(s, sub) ==
  \E i \in 1..(Len(s) - Len(sub) + 1) : SubSeq(s, i, i + Len(sub) - 1) = sub

RECURSIVE Join(_, _)
\* strings.Join
Join(ss, sep) ==
  IF ss = <<>> THEN <<>>
  ELSE IF Len(ss) = 1 THEN ss[1]
  ELSE ss[1] \o sep \o Join(Tail(ss), sep)

DigitVal(c) ==
  CASE c = "0" -> 0 [] c = "1" -> 1 [] c = "2" -> 2 [] c = "3" -> 3 [] c = "4" -> 4
    [] c = "5" -> 5 [] c = "6" -> 6 [] c = "7" -> 7 [] c = "8" -> 8 [] c = "9" -> 9

DigitChar(d) ==
  CASE d = 0 -> "0" [] d = 1 -> "1" [] d = 2 -> "2" [] d = 3 -> "3" [] d = 4 -> "4"
    [] d = 5 -> "5" [] d = 6 -> "6" [] d = 7 -> "7" [] d = 8 -> "8" [] d = 9 -> "9"

RECURSIVE DecVal(_)
DecVal(s) == IF s = <<>> THEN 0 ELSE 10 * DecVal(SubSeq(s, 1, Len(s) - 1)) + DigitVal(s[Len(s)])

\* the digits of 2^63 - 1, the largest int, and of 2^63
txtMaxInt ==
  <<"9", "2", "2", "3", "3", "7", "2", "0", "3", "6", "8", "5", "4", "7", "7", "5", "8", "0", "7">>

txtMinInt ==
  <<"9", "2", "2", "3", "3", "7", "2", "0", "3", "6", "8", "5", "4", "7", "7", "5", "8", "0", "8">>

RECURSIVE TrimZeros(_)
\* a digit string without its leading zeros
TrimZeros(s) == IF s # <<>> /\ s[1] = "0" THEN TrimZeros(Tail(s)) ELSE s

\* whether the number written d, without leading zeros, exceeds the number
\* written limit: it has more digits, or as many and a larger one first
exceeds(d, limit) ==
  \/ Len(d) > Len(limit)
  \/ /\ Len(d) = Len(limit)
     /\ \E i \in 1..Len(d) :
          /\ DigitVal(d[i]) > DigitVal(limit[i])
          /\ \A j \in 1..(i - 1) : d[j] = limit[j]

\* strconv.Atoi of the digits with the sign neg: an error for a value
\* out of the range of int
atoiDigits(digits, neg) ==
  IF digits = <<>> \/ \E i \in 1..Len(digits) : ~IsDigit(digits[i])
  THEN [ok |-> FALSE, n |-> 0]
  ELSE IF exceeds(TrimZeros(digits), IF neg THEN txtMinInt ELSE txtMaxInt)
  THEN [ok |-> FALSE, n |-> 0]
  ELSE [ok |-> TRUE, n |-> IF neg THEN 0 - DecVal(digits) ELSE DecVal(digits)]

\* strconv.Atoi: an optional sign, then decimal digits
Atoi(s) ==
  IF s # <<>> /\ s[1] \in {"+", "-"} THEN atoiDigits(Tail(s), s[1] = "-")
  ELSE atoiDigits(s, FALSE)

RECURSIVE Itoa(_)
\* fmt.Sprintf("%d", n) for n >= 0
Itoa(n) == IF n < 10 THEN <<DigitChar(n)>> ELSE Itoa(n \div 10) \o <<DigitChar(n % 10)>>

RECURSIVE FieldsFunc(_)
\* strings.FieldsFunc(s, spaceOrBar): the maximal runs of non-separators
FieldsFunc(s) ==
  IF s = <<>> THEN <<>>
  ELSE IF spaceOrBar(s[1]) THEN FieldsFunc(Tail(s))
  ELSE LET stop == {i \in 1..Len(s) : spaceOrBar(s[i])}
           n == IF stop = {} THEN Len(s)
                ELSE (CHOOSE i \in stop : \A j \in stop : i <= j) - 1
       IN <<SubSeq(s, 1, n)>> \o FieldsFunc(SubSeq(s, n + 1, Len(s)))

RECURSIVE RunLen(_, _, _)
\* number of consecutive characters of s from position i on that are digits
\* (word = FALSE) or word characters (word = TRUE): a greedy \d* or \w*
RunLen(s, i, word) ==
  IF i > Len(s) THEN 0
  ELSE IF (word /\ IsWord(s[i])) \/ (~word /\ IsDigit(s[i])) THEN 1 + RunLen(s, i + 1, word)
  ELSE 0

\* length of the match of \{\d+,\d*\} anchored at position i of s, 0 if none
MatchRangeAt(s, i) ==
  IF i > Len(s) \/ s[i] # "{" THEN 0
  ELSE LET d1 == RunLen(s, i + 1, FALSE)
           c == i + 1 + d1
       IN IF d1 = 0 \/ c > Len(s) \/ s[c] # "," THEN 0
          ELSE LET d2 == RunLen(s, c + 1, FALSE)
                   e == c + 1 + d2
               IN IF e > Len(s) \/ s[e] # "}" THEN 0 ELSE e - i + 1

RECURSIVE FindAllModifiers(_, _)
\* regexp "[*+!?]|\{\d+,\d*\}" FindAllStringSubmatch(s, -1), from position i:
\* the leftmost non-overlapping matches; text that matches nothing is skipped
FindAllModifiers(s, i) ==
  IF i > Len(s) THEN <<>>
  ELSE IF s[i] \in {"*", "+", "!", "?"} THEN <<<<s[i]>>>> \o FindAllModifiers(s, i + 1)
  ELSE LET n == MatchRangeAt(s, i)
       IN IF n > 0 THEN <<SubSeq(s, i, i + n - 1)>> \o FindAllModifiers(s, i + n)
          ELSE FindAllModifiers(s, i + 1)

\* regexp "^\{(\d+),(\d*)\}$" FindStringSubmatch(c): the two bound strings
RangeSubmatch(c) ==
  IF MatchRangeAt(c, 1) = Len(c) /\ Len(c) > 0
  THEN LET d1 == RunLen(c, 2, FALSE)
       IN [ok |-> TRUE, min |-> SubSeq(c, 2, 1 + d1), max |-> SubSeq(c, 3 + d1, Len(c) - 1)]
  ELSE [ok |-> FALSE, min |-> <<>>, max |-> <<>>]

(***************************************************************************)
(* Errors (CdlError)                                                       *)
(***************************************************************************)
Quoted(c) == <<"'">> \o c \o <<"'">>

NewError(t) == [Type |-> t, Supplementary |-> <<>>, Context |-> <<>>]

\* an AddContext that puts the new context in front of the list
AddContextFirst(e, c) == [e EXCEPT !.Context = <<c>> \o @]

AddContext(e, c) == [e EXCEPT !.Context = Append(@, c)]

AddContextQuoted(e, c) == AddContext(e, Quoted(c))

NewErrorContextQuoted(t, c) == AddContextQuoted(NewError(t), c)

SetSupplementary(e, s) == [e EXCEPT !.Supplementary = s]

\* var ErrorEnum: the text of each error type
ErrorText(t) ==
  CASE t = "ErrInternal" ->
         <<"I", "n", "t", "e", "r", "n", "a", "l", " ", "e", "r", "r", "o", "r">>
    [] t = "ErrMissingRoot" ->
         <<"N", "o", " ", "r", "o", "o", "t", " ", "k", "e", "y", " ", "i", "n", " ", "t", "e", "m", "p", "l", "a", "t", "e">>
    [] t = "ErrBadOptionValue" ->
         <<"B", "a", "d", " ", "o", "p", "t", "i", "o", "n", " ", "v", "a", "l", "u", "e">>
    [] t = "ErrBadRangeOptionModifier" ->
         <<"B", "a", "d", " ", "r", "a", "n", "g", "e", " ", "o", "p", "t", "i", "o", "n", " ", "m", "o", "d", "i", "f", "e", "r">>
    [] t = "ErrBadRangeOptionModifierValue" ->
         <<"B", "a", "d", " ", "r", "a", "n", "g", "e", " ", "o", "p", "t", "i", "o", "n", " ", "m", "o", "d", "i", "f", "i", "e", "r", " ", "v", "a", "l", "u", "e">>
    [] t = "ErrBadOptionModifier" ->
         <<"B", "a", "d", " ", "o", "p", "t", "i", "o", "n", " ", "m", "o", "d", "i", "f", "i", "e", "r">>
    [] t = "ErrBadKey" ->
         <<"B", "a", "d", " ", "k", "e", "y">>
    [] t = "ErrBadValue" ->
         <<"B", "a", "d", " ", "v", "a", "l", "u", "e">>
    [] t = "ErrUnknownKey" ->
         <<"U", "n", "k", "n", "o", "w", "n", " ", "k", "e", "y">>
    [] t = "ErrExpectedMap" ->
         <<"E", "x", "p", "e", "c", "t", "e", "d", " ", "m", "a", "p">>
    [] t = "ErrExpectedArray" ->
         <<"E", "x", "p", "e", "c", "t", "e", "d", " ", "a", "r", "r", "a", "y">>
    [] t = "ErrOutOfRange" ->
         <<"N", "u", "m", "b", "e", "r", " ", "o", "f", " ", "a", "r", "r", "a", "y", " ", "i", "t", "e", "m", "s", " ", "o", "u", "t", "s", "i", "d", "e", " ", "p", "e", "r", "m", "i", "s", "s", "i", "b", "l", "e", " ", "r", "a", "n", "g", "e">>
    [] t = "ErrBadType" ->
         <<"B", "a", "d", " ", "t", "y", "p", "e">>
    [] t = "ErrMissingMandatory" ->
         <<"M", "i", "s", "s", "i", "n", "g", " ", "m", "a", "n", "d", "a", "t", "o", "r", "y", " ", "k", "e", "y">>
    [] t = "ErrBadConfigurator" ->
         <<"B", "a", "d", " ", "c", "o", "n", "f", "i", "g", "u", "r", "a", "t", "o", "r">>
    [] t = "ErrBadEnumValue" ->
         <<"B", "a", "d", " ", "o", "p", "t", "i", "o", "n">>

\* e.Type.String(): the name of each error type
ErrorCode(t) ==
  CASE t = "ErrInternal" ->
         <<"E", "r", "r", "I", "n", "t", "e", "r", "n", "a", "l">>
    [] t = "ErrMissingRoot" ->
         <<"E", "r", "r", "M", "i", "s", "s", "i", "n", "g", "R", "o", "o", "t">>
    [] t = "ErrBadOptionValue" ->
         <<"E", "r", "r", "B", "a", "d", "O", "p", "t", "i", "o", "n", "V", "a", "l", "u", "e">>
    [] t = "ErrBadRangeOptionModifier" ->
         <<"E", "r", "r", "B", "a", "d", "R", "a", "n", "g", "e", "O", "p", "t", "i", "o", "n", "M", "o", "d", "i", "f", "i", "e", "r">>
    [] t = "ErrBadRangeOptionModifierValue" ->
         <<"E", "r", "r", "B", "a", "d", "R", "a", "n", "g", "e", "O", "p", "t", "i", "o", "n", "M", "o", "d", "i", "f", "i", "e", "r", "V", "a", "l", "u", "e">>
    [] t = "ErrBadOptionModifier" ->
         <<"E", "r", "r", "B", "a", "d", "O", "p", "t", "i", "o", "n", "M", "o", "d", "i", "f", "i", "e", "r">>
    [] t = "ErrBadKey" ->
         <<"E", "r", "r", "B", "a", "d", "K", "e", "y">>
    [] t = "ErrBadValue" ->
         <<"E", "r", "r", "B", "a", "d", "V", "a", "l", "u", "e">>
    [] t = "ErrUnknownKey" ->
         <<"E", "r", "r", "U", "n", "k", "n", "o", "w", "n", "K", "e", "y">>
    [] t = "ErrExpectedMap" ->
         <<"E", "r", "r", "E", "x", "p", "e", "c", "t", "e", "d", "M", "a", "p">>
    [] t = "ErrExpectedArray" ->
         <<"E", "r", "r", "E", "x", "p", "e", "c", "t", "e", "d", "A", "r", "r", "a", "y">>
    [] t = "ErrOutOfRange" ->
         <<"E", "r", "r", "O", "u", "t", "O", "f", "R", "a", "n", "g", "e">>
    [] t = "ErrBadType" ->
         <<"E", "r", "r", "B", "a", "d", "T", "y", "p", "e">>
    [] t = "ErrMissingMandatory" ->
         <<"E", "r", "r", "M", "i", "s", "s", "i", "n", "g", "M", "a", "n", "d", "a", "t", "o", "r", "y">>
    [] t = "ErrBadConfigurator" ->
         <<"E", "r", "r", "B", "a", "d", "C", "o", "n", "f", "i", "g", "u", "r", "a", "t", "o", "r">>
    [] t = "ErrBadEnumValue" ->
         <<"E", "r", "r", "B", "a", "d", "E", "n", "u", "m", "V", "a", "l", "u", "e">>

txtNear == <<" ", "n", "e", "a", "r", " ">>

txtAt == <<" ", "a", "t", " ">>

\* the text "main (code C)" of Error() for the context list ctx
errorText(e, main, ctx) ==
  main \o <<" ", "(", "c", "o", "d", "e", " ">> \o ErrorCode(e.Type) \o <<")">>
    \o (IF ctx = <<>> THEN <<>> ELSE txtNear \o Join(ctx, txtAt))

\* main of Error(): the text of the type, with the supplementary text if any
mainText(e) ==
  IF e.Supplementary = <<>> THEN ErrorText(e.Type)
  ELSE ErrorText(e.Type) \o <<";", " ">> \o e.Supplementary

\* (e CdlError) Error()
Error(e) == errorText(e, mainText(e), e.Context)

(***************************************************************************)
(* Enum types                                                              *)
(***************************************************************************)
\* NewEnumType(values...): items counts the arguments, toValue keeps the
\* last index of a repeated token
NewEnumType(values) ==
  [items |-> Len(values),
   toString |-> values,
   toValue |-> [t \in {values[i] : i \in 1..Len(values)} |->
                  (CHOOSE i \in 1..Len(values) :
                     values[i] = t /\ \A j \in 1..Len(values) : values[j] = t => j <= i) - 1]]

\* a Has that finds every token
EnumTypeHasAny(et, v) == TRUE

\* (et *EnumType) Has(v)
EnumTypeHas(et, v) == v \in DOMAIN et.toValue

(***************************************************************************)
(* Compiler                                                                *)
(***************************************************************************)
optrange(min, max) == [Min |-> min, Max |-> max]

requirement(m, a, r) == [mandatory |-> m, array |-> a, r |-> r]

\* (r *optrange) contains(value)
contains(r, value) == (value >= r.Min \/ r.Min = -1) /\ (value <= r.Max \/ r.Max = -1)

\* the checks of the range modifier case of makeOptions on the submatches
\* minMax and the converted bounds min and max.  The inner "max, err2 :="
\* declares a new max, so the max that reaches optrange{min, max} is still the
\* -1 it was initialised with.
rangeOfBounds(minMax, min, max, o) ==
  IF ~minMax.ok THEN [ok |-> FALSE, err |-> NewErrorContextQuoted("ErrBadRangeOptionModifier", o)]
  ELSE IF ~min.ok THEN [ok |-> FALSE, err |-> NewErrorContextQuoted("ErrBadRangeOptionModifierValue", o)]
  ELSE IF minMax.max # <<>> /\ (~max.ok \/ min.n > max.n)
       THEN [ok |-> FALSE, err |-> NewErrorContextQuoted("ErrBadRangeOptionModifierValue", o)]
  ELSE [ok |-> TRUE, r |-> optrange(min.n, -1)]

\* strconv.Atoi of the two submatches
rangeOfSubmatch(minMax, o) == rangeOfBounds(minMax, Atoi(minMax.min), Atoi(minMax.max), o)

\* the range modifier case of makeOptions: c is one "{n,m}" match, o the token
\* it was found in
rangeModifier(c, o) == rangeOfSubmatch(RangeSubmatch(c), o)

\* req.array = true; req.r = optrange{min, max}, unless the range was rejected
setRange(rm, req) ==
  IF ~rm.ok THEN [ok |-> FALSE, err |-> rm.err]
  ELSE [ok |-> TRUE, req |-> [req EXCEPT !.array = TRUE, !.r = rm.r]]

\* a switch in which the first modifier for a field wins: "!" leaves the
\* presence as it is and a cardinality modifier leaves an array as it is
applyModifierFirstWins(c, req, o) ==
  CASE c = <<"?">> -> [ok |-> TRUE, req |-> [req EXCEPT !.mandatory = FALSE]]
    [] c = <<"!">> -> [ok |-> TRUE, req |-> req]
    [] req.array -> [ok |-> TRUE, req |-> req]
    [] c = <<"+">> -> [ok |-> TRUE, req |-> [req EXCEPT !.array = TRUE, !.r = optrange(1, -1)]]
    [] c = <<"*">> -> [ok |-> TRUE, req |-> [req EXCEPT !.array = TRUE, !.r = optrange(0, -1)]]
    [] HasPrefix(c, <<"{">>) -> setRange(rangeModifier(c, o), req)
    [] OTHER -> [ok |-> FALSE, err |-> NewErrorContextQuoted("ErrBadOptionModifier", o)]

\* the switch of makeOptions on one modifier c
applyModifier(c, req, o) ==
  CASE c = <<"?">> -> [ok |-> TRUE, req |-> [req EXCEPT !.mandatory = FALSE]]
    [] c = <<"!">> -> [ok |-> TRUE, req |-> [req EXCEPT !.mandatory = TRUE]]
    [] c = <<"+">> -> [ok |-> TRUE, req |-> [req EXCEPT !.array = TRUE, !.r = optrange(1, -1)]]
    [] c = <<"*">> -> [ok |-> TRUE, req |-> [req EXCEPT !.array = TRUE, !.r = optrange(0, -1)]]
    [] HasPrefix(c, <<"{">>) -> setRange(rangeModifier(c, o), req)
    [] OTHER -> [ok |-> FALSE, err |-> NewErrorContextQuoted("ErrBadOptionModifier", o)]

RECURSIVE applyModifiers(_, _, _)
\* the next turn of the loop over optslice, m being the outcome of this one
nextModifier(m, cs, o) == IF m.ok THEN applyModifiers(Tail(cs), m.req, o) ELSE m

\* the loop over optslice in makeOptions: req after the modifiers cs, in order
applyModifiers(cs, req, o) ==
  IF cs = <<>> THEN [ok |-> TRUE, req |-> req]
  ELSE nextModifier(applyModifier(cs[1], req, o), cs, o)

\* opts[s[1]] = req, unless a modifier was rejected
optionOf(name, m) ==
  IF m.ok THEN [ok |-> TRUE, name |-> name, req |-> m.req] ELSE [ok |-> FALSE, err |-> m.err]

\* the "if s[2] != """ block of makeOptions, optslice being the modifiers found
optionWithModifiers(o, name, req, optslice) ==
  IF optslice = <<>> THEN [ok |-> FALSE, err |-> NewErrorContextQuoted("ErrBadOptionModifier", o)]
  ELSE optionOf(name, applyModifiers(optslice, req, o))

\* the token o split by "^(\w+)(.*)$" into name and rest
optionOfMatch(o, name, rest) ==
  IF name = <<>> THEN [ok |-> FALSE, err |-> NewErrorContextQuoted("ErrBadOptionValue", o)]
  ELSE IF rest = <<>>
  THEN [ok |-> TRUE, name |-> name, req |-> requirement(TRUE, FALSE, optrange(-1, -1))]
  ELSE optionWithModifiers(o, name, requirement(TRUE, FALSE, optrange(-1, -1)),
                           FindAllModifiers(rest, 1))

\* the token o, whose first n characters are word characters
optionAt(o, n) == optionOfMatch(o, SubSeq(o, 1, n), SubSeq(o, n + 1, Len(o)))

\* one token o of a map spec: regexp "^(\w+)(.*)$", then the modifiers
makeOption(o) == optionAt(o, RunLen(o, 1, TRUE))

RECURSIVE makeOptionsLoop(_, _)
\* the next turn of the loop over the tokens, m being the outcome of this one
nextOption(m, tokens, opts) ==
  IF ~m.ok THEN [ok |-> FALSE, err |-> m.err]
  ELSE makeOptionsLoop(Tail(tokens), (m.name :> m.req) @@ opts)

\* the loop of makeOptions over the tokens of the spec
makeOptionsLoop(tokens, opts) ==
  IF tokens = <<>> THEN [ok |-> TRUE, opts |-> opts]
  ELSE nextOption(makeOption(tokens[1]), tokens, opts)

\* makeOptions(optString): child name -> requirement, or the first error
makeOptions(optString) == makeOptionsLoop(FieldsFunc(optString), <<>>)

\* the checks of the "[]" case of Compile on the converted bounds
\* the bounds of an array spec stored without comparing them
arrayOfBoundsUncompared(arr, name, minMax, min, max) ==
  IF ~min.ok \/ (minMax.max # <<>> /\ ~max.ok)
  THEN [ok |-> FALSE, err |-> NewErrorContextQuoted("ErrBadRangeOptionModifierValue", arr)]
  ELSE [ok |-> TRUE,
        rule |-> Tag("array",
                     [name |-> name,
                      r |-> optrange(min.n, IF minMax.max = <<>> THEN -1 ELSE max.n)])]

arrayOfBounds(arr, name, minMax, min, max) ==
  IF ~min.ok THEN [ok |-> FALSE, err |-> NewErrorContextQuoted("ErrBadRangeOptionModifierValue", arr)]
  ELSE IF minMax.max # <<>> /\ (~max.ok \/ min.n > max.n)
       THEN [ok |-> FALSE, err |-> NewErrorContextQuoted("ErrBadRangeOptionModifierValue", arr)]
  ELSE [ok |-> TRUE,
        rule |-> Tag("array",
                     [name |-> name,
                      r |-> optrange(min.n, IF minMax.max = <<>> THEN -1 ELSE max.n)])]

\* the array case without the test of the suffix: a suffix that is no range is
\* taken as no suffix
arrayOfMatchAnySuffix(arr, name, suffix, minMax) ==
  IF name = <<>>
  THEN [ok |-> FALSE, err |-> NewErrorContextQuoted("ErrBadRangeOptionModifier", arr)]
  ELSE IF suffix = <<>> \/ ~minMax.ok
  THEN [ok |-> TRUE, rule |-> Tag("array", [name |-> name, r |-> optrange(-1, -1)])]
  ELSE arrayOfBounds(arr, name, minMax, Atoi(minMax.min), Atoi(minMax.max))

\* arr split by "^(\w+)(\{(\d+),(\d*)\})?$" into name and suffix, minMax being
\* the submatches of the suffix
arrayOfMatch(arr, name, suffix, minMax) ==
  IF name = <<>> \/ (suffix # <<>> /\ ~minMax.ok)
  THEN [ok |-> FALSE, err |-> NewErrorContextQuoted("ErrBadRangeOptionModifier", arr)]
  ELSE IF suffix = <<>>
  THEN [ok |-> TRUE, rule |-> Tag("array", [name |-> name, r |-> optrange(-1, -1)])]
  ELSE arrayOfBounds(arr, name, minMax, Atoi(minMax.min), Atoi(minMax.max))

\* arr split after its first n characters, which are word characters
arraySuffix(arr, name, suffix) == arrayOfMatch(arr, name, suffix, RangeSubmatch(suffix))

arrayAt(arr, n) == arraySuffix(arr, SubSeq(arr, 1, n), SubSeq(arr, n + 1, Len(arr)))

\* the "[]" case of Compile: regexp "^(\w+)(\{(\d+),(\d*)\})?$" on arr
makeArray(arr) == arrayAt(arr, RunLen(arr, 1, TRUE))

\* regexp "^(/|(\w+))?$" on a template key
keyMatches(k) == k = <<>> \/ k = <<"/">> \/ \A i \in 1..Len(k) : IsWord(k[i])

\* the "{}" case of Compile, o being what makeOptions returned
compileOptions(o, k) ==
  IF o.ok THEN [ok |-> TRUE, rule |-> Tag("options", o.opts)]
  ELSE [ok |-> FALSE, err |-> AddContextQuoted(o.err, k)]

\* the string case of Compile, the empty string already replaced by "/"
compileString(k, t) ==
  IF HasPrefix(t, <<"{", "}">>) THEN compileOptions(makeOptions(TrimPrefix(t, <<"{", "}">>)), k)
  ELSE IF HasPrefix(t, <<"[", "]">>) THEN makeArray(TrimPrefix(t, <<"[", "]">>))
  ELSE [ok |-> TRUE, rule |-> Tag("string", t)]

\* the body of the first loop of Compile for the entry k: v
compileEntry(k, v) ==
  IF ~keyMatches(k) THEN [ok |-> FALSE, err |-> NewErrorContextQuoted("ErrBadKey", k)]
  ELSE CASE Kind(v) = "string" -> compileString(k, IF Val(v) = <<>> THEN <<"/">> ELSE Val(v))
         [] Kind(v) = "EnumType" -> [ok |-> TRUE, rule |-> v]
         [] Kind(v) = "ValidatorFunc" -> [ok |-> TRUE, rule |-> v]
         [] Kind(v) = "func" -> [ok |-> TRUE, rule |-> Tag("ValidatorFunc", Val(v))]
         [] OTHER -> [ok |-> FALSE,
                      err |-> AddContextQuoted(NewErrorContextQuoted("ErrBadValue", Val(v)), k)]

\* the children named by the map specs of the rule set s
namedChildren(s) ==
  UNION {DOMAIN Val(s[k]) : k \in {n \in DOMAIN s : Kind(s[n]) = "options"}}

\* s with the names named registered as 0 ("autodiscovered")
register(s, named) ==
  [n \in DOMAIN s \cup named |-> IF n \in DOMAIN s THEN s[n] ELSE Tag("int", 0)]

\* the second loop of Compile: the children of every map spec that have no
\* entry of their own are registered
autodiscover(s) == register(s, namedChildren(s))

NoError == [Type |-> "", Supplementary |-> <<>>, Context |-> <<>>]

NoTemplate == Tag("nil", 0)

\* a Compile without the final check for the root entry
rootCheckSkipped(s) == {[ct |-> Tag("CompiledTemplate", s), err |-> NoError]}

\* the end of Compile: the rule set s must hold the root
rootCheck(s) ==
  IF <<"/">> \notin DOMAIN s THEN {[ct |-> NoTemplate, err |-> NewError("ErrMissingRoot")]}
  ELSE {[ct |-> Tag("CompiledTemplate", s), err |-> NoError]}

\* the entries of t that the first loop of Compile rejects
rejected(t) == {k \in DOMAIN t : ~compileEntry(k, t[k]).ok}

\* Compile(t), bad being the entries it rejects: the template is a Go map,
\* ranged over in an order the runtime chooses, so the error returned is that
\* of whichever rejected entry comes first
compileOutcomes(t, bad) ==
  IF bad # {} THEN {[ct |-> NoTemplate, err |-> compileEntry(k, t[k]).err] : k \in bad}
  ELSE rootCheck(autodiscover([k \in DOMAIN t |-> compileEntry(k, t[k]).rule]))

Compile(t) == compileOutcomes(t, rejected(t))

(***************************************************************************)
(* Texts of the messages and Go type names                                 *)
(***************************************************************************)
txtGot == <<"g", "o", "t", " ">>

txtExpected == <<" ", "e", "x", "p", "e", "c", "t", "e", "d", " ">>

txtExpectedOption == <<" ", "e", "x", "p", "e", "c", "t", "e", "d", " ", "a", "n", " ", "o", "p", "t", "i", "o", "n", " ", "a", "s", " ", "a", " ", "s", "t", "r", "i", "n", "g">>

txtUnknownValue == <<"u", "n", "k", "n", "o", "w", "n", " ", "v", "a", "l", "u", "e", " ">>

txtMissing == <<"m", "i", "s", "s", "i", "n", "g", " ">>

txtCommaSpace == <<",", " ">>

txtExpectingAtLeast == <<",", " ", "e", "x", "p", "e", "c", "t", "i", "n", "g", " ", "a", "t", " ", "l", "e", "a", "s", "t", " ">>

txtExpectingBetween == <<",", " ", "e", "x", "p", "e", "c", "t", "i", "n", "g", " ", "b", "e", "t", "w", "e", "e", "n", " ">>

txtAnd == <<" ", "a", "n", "d", " ">>

txtAtConfigurationGot == <<"a", "t", " ", "c", "o", "n", "f", "i", "g", "u", "r", "a", "t", "i", "o", "n", " ", "g", "o", "t", " ">>

txtNotPointer == <<"g", "o", "t", " ", "o", "b", "j", "e", "c", "t", " ", "t", "h", "a", "t", " ", "i", "s", " ", "n", "o", "t", " ", "a", " ", "p", "o", "i", "n", "t", "e", "r">>

txtUnknownType == <<"g", "o", "t", " ", "u", "n", "k", "n", "o", "w", "n", " ", "t", "y", "p", "e">>

txtNotFloat64 == <<"i", "s", " ", "n", "o", "t", " ", "a", " ", "f", "l", "o", "a", "t", "6", "4">>

txtNotOneOrTwo == <<"i", "s", " ", "n", "o", "t", " ", "1", " ", "o", "r", " ", "2">>

txtIndex == <<"i", "n", "d", "e", "x", " ">>

tyNil == <<"<", "n", "i", "l", ">">>

tyString == <<"s", "t", "r", "i", "n", "g">>

tyFloat64 == <<"f", "l", "o", "a", "t", "6", "4">>

tyBool == <<"b", "o", "o", "l">>

tyInt == <<"i", "n", "t">>

tySlice == <<"[", "]", "i", "n", "t", "e", "r", "f", "a", "c", "e", " ", "{", "}">>

tyMap == <<"m", "a", "p", "[", "s", "t", "r", "i", "n", "g", "]", "i", "n", "t", "e", "r", "f", "a", "c", "e", " ", "{", "}">>

tyEnum == <<"c", "d", "l", ".", "E", "n", "u", "m">>

tyNumber == <<"n", "u", "m", "b", "e", "r">>

tyInteger == <<"i", "n", "t", "e", "g", "e", "r">>

tyIpport == <<"i", "p", "p", "o", "r", "t">>

(***************************************************************************)
(* Go values.  The payload <<u, t>> of a number stands for u * 2^62 + t in  *)
(* the integer types and for u * 2^62 + t / 10 in the floating types (42   *)
(* is 4.2); t is small (less than 512 in size), and a floating number with *)
(* u # 0 has t = 0.  So the numbers near the ends of int64 and uint64 are   *)
(* held exactly: <<2, -1>> is the largest int64, <<4, -1>> the largest     *)
(* uint64, and the float64 <<2, 0>> is 2^63.                               *)
(***************************************************************************)
Num(u, t) == <<u, t>>

IntegerKinds ==
  {"int", "int8", "int16", "int32", "int64", "uint", "uint8", "uint16", "uint32", "uint64"}

FloatKinds == {"float32", "float64"}

GoNumber(kind, u, t) == Tag(kind, Num(u, t))

GoNil == Tag("nil", 0)

GoString(s) == Tag("string", s)

GoFloat64(tenths) == Tag("float64", Num(0, tenths))

GoInt(n) == Tag("int", Num(0, n))

GoBool(b) == Tag("bool", b)

GoSlice(s) == Tag("slice", s)

GoMap(m) == Tag("map", m)

\* fmt.Sprintf("%T", o)
Sprintf_T(o) ==
  CASE Kind(o) = "nil" -> tyNil
    [] Kind(o) = "string" -> tyString
    [] Kind(o) = "float64" -> tyFloat64
    [] Kind(o) = "int" -> tyInt
    [] Kind(o) = "int8" -> <<"i", "n", "t", "8">>
    [] Kind(o) = "int16" -> <<"i", "n", "t", "1", "6">>
    [] Kind(o) = "int32" -> <<"i", "n", "t", "3", "2">>
    [] Kind(o) = "int64" -> <<"i", "n", "t", "6", "4">>
    [] Kind(o) = "uint" -> <<"u", "i", "n", "t">>
    [] Kind(o) = "uint8" -> <<"u", "i", "n", "t", "8">>
    [] Kind(o) = "uint16" -> <<"u", "i", "n", "t", "1", "6">>
    [] Kind(o) = "uint32" -> <<"u", "i", "n", "t", "3", "2">>
    [] Kind(o) = "uint64" -> <<"u", "i", "n", "t", "6", "4">>
    [] Kind(o) = "float32" -> <<"f", "l", "o", "a", "t", "3", "2">>
    [] Kind(o) = "bool" -> tyBool
    [] Kind(o) = "slice" -> tySlice
    [] Kind(o) = "map" -> tyMap
    [] Kind(o) = "Enum" -> tyEnum

\* (r *optrange) describeError(value)
describeError(r, value) ==
  LET min == IF r.Min < 0 THEN 0 ELSE r.Min
  IN IF r.Max < 0 THEN txtGot \o Itoa(value) \o txtExpectingAtLeast \o Itoa(min)
     ELSE txtGot \o Itoa(value) \o txtExpectingBetween \o Itoa(min) \o txtAnd \o Itoa(r.Max)

\* net.SplitHostPort(s) returns no error
SplitHostPortOk(s) ==
  LET colons == {i \in 1..Len(s) : s[i] = ":"}
      i == CHOOSE c \in colons : \A d \in colons : d <= c
      closes == {e \in 1..Len(s) : s[e] = "]"}
      end == CHOOSE c \in closes : \A d \in closes : c <= d
      bracketed == s[1] = "["
      j == IF bracketed THEN 2 ELSE 1
      k == IF bracketed THEN end + 1 ELSE 1
  IN /\ colons # {}
     /\ IF bracketed THEN closes # {} /\ end + 1 = i
        ELSE \A c \in colons : c = i
     /\ \A n \in j..Len(s) : s[n] # "["
     /\ \A n \in k..Len(s) : s[n] # "]"

(***************************************************************************)
(* Outcomes of a validation step: the error (if any) and the caller's      *)
(* world after it: the destinations and the calls the handlers received.   *)
(* A Go panic ends the call without a CdlError.                            *)
(***************************************************************************)
Ok(w) == [st |-> "ok", err |-> NoError, w |-> w]

Fail(e, w) == [st |-> "err", err |-> e, w |-> w]

Panic(w) == [st |-> "panic", err |-> NoError, w |-> w]

\* what a frame does with the outcome of a callee: an error gets the frame's
\* context, a panic unwinds through the frame untouched
Near(out, c) == IF out.st = "err" THEN [out EXCEPT !.err = AddContext(@, c)] ELSE out

\* a push that puts the new segment in front
pushFirst(path, o) == <<o>> \o path

\* (p *Path) push(o)
push(path, o) == Append(path, o)

\* the validator function of the tests
isOneOrTwo(o) ==
  IF Kind(o) # "float64" THEN SetSupplementary(NewError("ErrBadValue"), txtNotFloat64)
  ELSE IF Val(o) # Num(0, 10) /\ Val(o) # Num(0, 20) THEN SetSupplementary(NewError("ErrBadValue"), txtNotOneOrTwo)
  ELSE NoError

\* the call t(o) of a ValidatorFunc
callValidator(fn, o) == IF fn = "isOneOrTwo" THEN isOneOrTwo(o) ELSE NoError

NumericKinds == IntegerKinds \cup FloatKinds

MaxInt64 == Num(2, -1)

MinInt64 == Num(-2, 0)

\* whether the integer or the whole part of the floating number p lies in
\* the range of the 64-bit int
fitsInt(p) ==
  \/ p[1] \in {-1, 0, 1}
  \/ p[1] = 2 /\ p[2] < 0
  \/ p[1] = -2 /\ p[2] >= 0

\* the conversion float64(n) or float32(n) of an integer n: exact for the
\* small numbers, rounded to the nearest power-of-two multiple for the large
intToFloat(p) == IF p[1] = 0 THEN Num(0, p[2] * 10) ELSE Num(p[1], 0)

\* the conversion int(n) of an integer n of any width: the low 64 bits
intToInt(p) == IF fitsInt(p) THEN p ELSE Num(p[1] - 4, p[2])

\* the conversion int(n) of a floating n: truncation towards zero when the
\* result fits; otherwise the result is implementation-dependent, the
\* smallest int on amd64 and the nearest end of the range on arm64
floatToInt(p) ==
  IF fitsInt(p)
  THEN {Num(p[1], IF p[2] >= 0 THEN p[2] \div 10 ELSE -((-p[2]) \div 10))}
  ELSE {MinInt64, IF p[1] > 0 THEN MaxInt64 ELSE MinInt64}

\* a test of int(n) that lets every floating n pass
integralIntsUntested(p) == floatToInt(p)

\* the results int(n) for which n == float64(int(n)), or float32 for float32
integralInts(p) == {i \in floatToInt(p) : intToFloat(i) = p}

\* the outcome of the type switch that ends in ErrBadType when ok is false
typeChecked(ok, o, t, w) ==
  IF ok THEN Ok(w)
  ELSE Fail(SetSupplementary(NewError("ErrBadType"), txtGot \o Sprintf_T(o) \o txtExpected \o t), w)

\* the case "integer" of validateItem: both outcomes where the build decides
integerChecked(o, t, w) ==
  IF Kind(o) \in IntegerKinds THEN {Ok(w)}
  ELSE IF Kind(o) \in FloatKinds
  THEN {typeChecked(i \in integralInts(Val(o)), o, t, w) : i \in floatToInt(Val(o))}
  ELSE {typeChecked(FALSE, o, t, w)}

\* the case string of validateItem: a type name or a pseudotype
validateScalar(o, t, w) ==
  CASE t = tyNumber -> {typeChecked(Kind(o) \in NumericKinds, o, t, w)}
    [] t = tyInteger -> integerChecked(o, t, w)
    [] t = tyIpport -> {typeChecked(Kind(o) = "string" /\ SplitHostPortOk(Val(o)), o, t, w)}
    [] OTHER -> IF Kind(o) = "nil" THEN {Panic(w)}
                ELSE {typeChecked(Sprintf_T(o) = t, o, t, w)}

(***************************************************************************)
(* Enum values                                                             *)
(***************************************************************************)
\* (et *EnumType) New(v), for a member v
EnumTypeNew(et, v) == Tag("Enum", [Type |-> et, value |-> et.toValue[v]])

\* (e Enum) String()
EnumString(e) == Val(e).Type.toString[Val(e).value + 1]

\* (e *Enum) Has(v)
EnumHas(e, v) == v \in DOMAIN Val(e).Type.toValue

\* (e *Enum) Set(v), for a member v
EnumSet(e, v) == [e EXCEPT ![2].value = Val(e).Type.toValue[v]]

(***************************************************************************)
(* Configurators                                                           *)
(***************************************************************************)
NoConfigurator == Tag("nil", 0)

\* the conversions validateAndConfigureItem applies before it hands o over.
\* Its "case *EnumType" never matches: Compile stores an EnumType by value.
\* v = float64(n) of the case "number"
toFloat64(o) ==
  IF Kind(o) \in IntegerKinds THEN Tag("float64", intToFloat(Val(o)))
  ELSE Tag("float64", Val(o))

\* v = int(n) of the case "integer"; validateItem has accepted a floating n
\* on finding n == float64(int(n)), and the build converts it the same way
\* again
toInt(o) ==
  IF Kind(o) \in IntegerKinds THEN Tag("int", intToInt(Val(o)))
  ELSE Tag("int", CHOOSE i \in floatToInt(Val(o)) :
                    integralInts(Val(o)) # {} => i \in integralInts(Val(o)))

\* a coercion that hands every value on as it is
coerceNothing(val, o) == o

coerce(val, o) ==
  IF Kind(val) # "string" THEN o
  ELSE CASE Val(val) = tyNumber /\ Kind(o) \in NumericKinds -> toFloat64(o)
         [] Val(val) = tyInteger /\ Kind(o) \in NumericKinds -> toInt(o)
         [] OTHER -> o

\* assign(ptr, obj) for a pointer to the destination d
assign(d, obj, w) ==
  IF Kind(obj) = "nil" THEN Panic(w)
  ELSE IF Kind(w.dests[d]) # Kind(obj)
  THEN Fail(SetSupplementary(NewError("ErrBadType"),
              txtAtConfigurationGot \o Sprintf_T(w.dests[d]) \o txtExpected \o Sprintf_T(obj)), w)
  ELSE Ok([w EXCEPT !.dests[d] = obj])

\* the call t(v, path) of a ConfiguratorFunc: the handler records what it was
\* given; the handler "reject" then returns an error
callConfigurator(fn, pos, v, path, w) ==
  LET w2 == [w EXCEPT !.calls = Append(@, [rule |-> pos, obj |-> v, path |-> path])]
  IN IF fn = "reject" THEN Fail(NewError("ErrBadValue"), w2) ELSE Ok(w2)

\* a "case *Enum" that takes strings only
configureEnumStringOnly(d, v, w) ==
  IF Kind(v) # "string"
  THEN Fail(SetSupplementary(NewError("ErrBadType"), txtGot \o Sprintf_T(v) \o txtExpectedOption), w)
  ELSE IF ~EnumHas(w.dests[d], Val(v))
  THEN Fail(SetSupplementary(NewError("ErrBadEnumValue"), txtUnknownValue \o Quoted(Val(v))), w)
  ELSE Ok([w EXCEPT !.dests[d] = EnumSet(@, Val(v))])

\* the "case *Enum" of validateAndConfigureItem, for the destination d
configureEnum(d, v, w) ==
  LET token == IF Kind(v) = "string" THEN Val(v) ELSE EnumString(v)
  IN IF Kind(v) \notin {"string", "Enum"}
     THEN Fail(SetSupplementary(NewError("ErrBadType"), txtGot \o Sprintf_T(v) \o txtExpectedOption), w)
     ELSE IF ~EnumHas(w.dests[d], token)
     THEN Fail(SetSupplementary(NewError("ErrBadEnumValue"), txtUnknownValue \o Quoted(token)), w)
     ELSE Ok([w EXCEPT !.dests[d] = EnumSet(@, token)])

\* validateAndConfigureItem after validateItem has succeeded
configure(s, o, pos, cfg, path, w) ==
  IF Kind(cfg) = "nil" \/ pos \notin DOMAIN Val(cfg) THEN Ok(w)
  ELSE IF Kind(Val(cfg)[pos]) = "nil" THEN Ok(w)
  ELSE IF pos \notin DOMAIN s THEN Fail(NewError("ErrUnknownKey"), w)
  ELSE LET v == coerce(s[pos], o)
           cnf == Val(cfg)[pos]
       IN CASE Kind(cnf) \in {"ConfiguratorFunc", "func"} -> callConfigurator(Val(cnf), pos, v, path, w)
            [] Kind(cnf) = "*Enum" -> configureEnum(Val(cnf), v, w)
            [] Kind(cnf) = "ptr" -> assign(Val(cnf), v, w)
            [] OTHER -> Fail(SetSupplementary(NewError("ErrBadConfigurator"), txtUnknownType), w)

(***************************************************************************)
(* Validator.  Every step yields the set of its possible outcomes: a Go    *)
(* map is ranged over in an order the runtime chooses.                     *)
(***************************************************************************)
\* the orders in which "for k := range" may visit the keys S
Orders(S) ==
  {f \in [1..Cardinality(S) -> S] : \A i, j \in 1..Cardinality(S) : f[i] = f[j] => i = j}

\* a validateMap tail that reports one of the missing children only
missingMandatoryFirstOnly(mand, w) ==
  IF mand = {} THEN {Ok(w)}
  ELSE {Fail(SetSupplementary(NewError("ErrMissingMandatory"), txtMissing \o Quoted(k)), w) :
          k \in mand}

\* the tail of validateMap: the mandatory children never seen
missingMandatory(mand, w) ==
  IF mand = {} THEN {Ok(w)}
  ELSE {Fail(SetSupplementary(NewError("ErrMissingMandatory"),
               txtMissing \o Join([i \in DOMAIN f |-> Quoted(f[i])], txtCommaSpace)), w) :
          f \in Orders(mand)}

RECURSIVE validateItem(_, _, _, _, _, _)
RECURSIVE validateAndConfigureItem(_, _, _, _, _, _)
RECURSIVE validateRangeLoop(_, _, _, _, _, _, _)
RECURSIVE validateMapLoop(_, _, _, _, _, _, _, _)

\* a validateAndConfigureItem that hands the node to its handler first and
\* validates it afterwards
configureThenValidate(s, o, pos, cfg, path, w) ==
  UNION {IF out.st = "ok" THEN validateItem(s, o, pos, cfg, path, out.w) ELSE {out} :
           out \in {configure(s, o, pos, cfg, path, w)}}

\* the loop of validateRange from the element at index i (0-based) on
validateRangeLoop(s, slice, i, pos, cfg, path, w) ==
  IF i >= Len(slice) THEN {Ok(w)}
  ELSE UNION {IF out.st = "ok" THEN validateRangeLoop(s, slice, i + 1, pos, cfg, path, out.w)
              ELSE {Near(out, txtIndex \o Itoa(i))} :
                out \in validateAndConfigureItem(s, slice[i + 1], pos, cfg, push(path, GoInt(i)), w)}

validateRange(s, o, pos, r, cfg, path, w) ==
  IF Kind(o) # "slice" THEN {Fail(NewError("ErrExpectedArray"), w)}
  ELSE IF ~contains(r, Len(Val(o)))
  THEN {Fail(SetSupplementary(NewError("ErrOutOfRange"), describeError(r, Len(Val(o)))), w)}
  ELSE validateRangeLoop(s, Val(o), 0, pos, cfg, path, w)

\* the loop of validateMap over the keys todo of m still to visit, any of
\* which may come next; mand holds the mandatory children not yet seen
validateMapLoop(s, m, todo, opts, mand, cfg, path, w) ==
  IF todo = {} THEN missingMandatory(mand, w)
  ELSE UNION {
    IF k \notin DOMAIN opts THEN {Fail(NewErrorContextQuoted("ErrBadKey", k), w)}
    ELSE LET t == opts[k]
             outs == IF t.array
                     THEN validateRange(s, m[k], k, t.r, cfg, push(path, GoString(k)), w)
                     ELSE validateAndConfigureItem(s, m[k], k, cfg, push(path, GoString(k)), w)
         IN UNION {IF out.st = "ok"
                   THEN validateMapLoop(s, m, todo \ {k}, opts,
                                        IF t.mandatory THEN mand \ {k} ELSE mand, cfg, path, out.w)
                   ELSE {Near(out, Quoted(k))} : out \in outs} :
    k \in todo}

\* an open-world validateMap, which skips the keys the spec does not name
validateMapOpenWorld(s, o, pos, opts, cfg, path, w) ==
  IF Kind(o) # "map" THEN {Fail(NewError("ErrExpectedMap"), w)}
  ELSE validateMapLoop(s, Val(o), DOMAIN Val(o) \cap DOMAIN opts, opts,
                       {k \in DOMAIN opts : opts[k].mandatory}, cfg, path, w)

\* a validateMap that looks for the missing mandatory children before it
\* visits the keys
validateMapMandatoryFirst(s, o, pos, opts, cfg, path, w) ==
  IF Kind(o) # "map" THEN {Fail(NewError("ErrExpectedMap"), w)}
  ELSE IF {k \in DOMAIN opts : opts[k].mandatory} \ DOMAIN Val(o) # {}
  THEN missingMandatory({k \in DOMAIN opts : opts[k].mandatory} \ DOMAIN Val(o), w)
  ELSE validateMapLoop(s, Val(o), DOMAIN Val(o), opts,
                       {k \in DOMAIN opts : opts[k].mandatory}, cfg, path, w)

validateMap(s, o, pos, opts, cfg, path, w) ==
  IF Kind(o) # "map" THEN {Fail(NewError("ErrExpectedMap"), w)}
  ELSE validateMapLoop(s, Val(o), DOMAIN Val(o), opts,
                       {k \in DOMAIN opts : opts[k].mandatory}, cfg, path, w)

validateItem(s, o, pos, cfg, path, w) ==
  IF pos \notin DOMAIN s THEN {Fail(NewError("ErrUnknownKey"), w)}
  ELSE LET val == s[pos]
       IN CASE Kind(val) = "ValidatorFunc" ->
                 LET e == callValidator(Val(val), o)
                 IN IF e = NoError THEN {Ok(w)} ELSE {Fail(e, w)}
            [] Kind(val) = "EnumType" ->
                 IF Kind(o) # "string"
                 THEN {Fail(SetSupplementary(NewError("ErrBadType"),
                              txtGot \o Sprintf_T(o) \o txtExpectedOption), w)}
                 ELSE IF ~EnumTypeHas(Val(val), Val(o))
                 THEN {Fail(SetSupplementary(NewError("ErrBadEnumValue"),
                              txtUnknownValue \o Quoted(Val(o))), w)}
                 ELSE {Ok(w)}
            [] Kind(val) = "options" -> validateMap(s, o, pos, Val(val), cfg, path, w)
            [] Kind(val) = "array" -> validateRange(s, o, Val(val).name, Val(val).r, cfg, path, w)
            [] Kind(val) = "string" -> validateScalar(o, Val(val), w)
            [] Kind(val) = "int" -> {Ok(w)}

validateAndConfigureItem(s, o, pos, cfg, path, w) ==
  {IF out.st = "ok" THEN configure(s, o, pos, cfg, path, out.w) ELSE out :
     out \in validateItem(s, o, pos, cfg, path, w)}

\* (ct *CompiledTemplate) Validate(o, configurator)
Validate(c, o, cfg, w) == validateAndConfigureItem(Val(c), o, <<"/">>, cfg, <<>>, w)

(***************************************************************************)
(* Inputs of the validation runs                                           *)
(***************************************************************************)
Root == <<"/">>

nameA == <<"a">>

nameB == <<"b">>

nameZ == <<"z">>

Grammar(g) == Tag("string", g)

\* NewEnumType("flesh", "pips", "rind") of the tests, with one-letter tokens
fruitPart == NewEnumType(<<<<"f">>, <<"p">>, <<"r">>>>)

\* "{}a b?", "{}a b", "{}a{1,2}? b", "{}a? b*", "[]a{1,2}", "[]a"
RootGrammars ==
  {<<"{", "}", "a", " ", "b", "?">>,
   <<"{", "}", "a", " ", "b">>,
   <<"{", "}", "a", "{", "1", ",", "2", "}", "?", " ", "b">>,
   <<"{", "}", "a", "?", " ", "b", "*">>,
   <<"[", "]", "a", "{", "1", ",", "2", "}">>,
   <<"[", "]", "a">>}

\* the entry of rule a: none, "float64", "string", "{}b?"
RulesA ==
  {<<>>} \cup {nameA :> Grammar(g) : g \in {tyFloat64, tyString, <<"{", "}", "b", "?">>}}

\* the entry of rule b: none, "string"
RulesB == {<<>>, nameB :> Grammar(tyString)}

ValidationTemplates ==
  {Tag("Template", (Root :> Grammar(g)) @@ ra @@ rb) :
     g \in RootGrammars, ra \in RulesA, rb \in RulesB}

Scalars == {GoNil, GoString(<<"x">>), GoFloat64(10)}

\* the sequences of at most n scalars
SlicesUpTo(n) == UNION {{GoSlice(q) : q \in [1..l -> Scalars]} : l \in 0..n}

\* the sequences that repeat one non-nil scalar
UniformSlices ==
  {GoSlice([i \in 1..l |-> e]) : l \in 0..MaxLen, e \in Scalars \ {GoNil}}

\* the maps from some of the keys K to values of V
MapsOver(K, V) == UNION {{GoMap(m) : m \in [D -> V]} : D \in SUBSET K}

InnerMaps == MapsOver({nameB, nameZ}, Scalars \ {GoNil})

ChildValues == Scalars \cup UniformSlices \cup InnerMaps

Instances ==
  Scalars \cup SlicesUpTo(MaxLen)
    \cup {GoMap(m @@ z) : m \in UNION {[D -> ChildValues] : D \in SUBSET {nameA, nameB}},
                          z \in {<<>>, nameZ :> GoFloat64(10)}}

\* a second EnumType, which shares the token "p" with fruitPart
otherPart == NewEnumType(<<<<"p">>, <<"x">>>>)

\* the caller's variables a destination may point to: a string, a float64,
\* an int, an Enum of fruitPart (fruitPart.New("flesh") of the tests) and an
\* Enum of otherPart
InitDests ==
  [d \in {"s", "f", "i", "e", "o"} |->
     CASE d = "s" -> GoString(<<>>)
       [] d = "f" -> GoFloat64(0)
       [] d = "i" -> GoInt(0)
       [] d = "e" -> EnumTypeNew(fruitPart, <<"f">>)
       [] d = "o" -> EnumTypeNew(otherPart, <<"x">>)]

\* the caller's world before the first Validate
BeforeValidate == [dests |-> InitDests, calls |-> <<>>]

HandlersA == {Tag("func", "accept"), Tag("ptr", "s")}

HandlersB == {Tag("ConfiguratorFunc", "accept"), Tag("ptr", "f"),
              Tag("ConfiguratorFunc", "reject")}

\* no configurator, a handler for each of a and b, and callbacks for the
\* root, a and b
Configurators ==
  {NoConfigurator}
    \cup {Tag("Configurator", (nameA :> ha) @@ (nameB :> hb)) :
            ha \in HandlersA, hb \in HandlersB}
    \cup {Tag("Configurator", (Root :> Tag("func", "accept")) @@ (nameA :> Tag("func", "accept"))
                                @@ (nameB :> Tag("ConfiguratorFunc", "accept")))}

(***************************************************************************)
(* Paths.  A Path holds a slice: a reference to an array of the heap and   *)
(* the number of its cells that belong to the slice.  The heap is the      *)
(* sequence of the arrays allocated so far; array 0 is the nil slice's.    *)
(***************************************************************************)
\* Path{}: the nil slice
NoPath == [arr |-> 0, len |-> 0]

\* cap(p.items)
capOf(h, p) == IF p.arr = 0 THEN 0 ELSE Len(h[p.arr])

\* the capacity append asks for when the array of capacity c is full
grownCap(c) == IF c = 0 THEN 1 ELSE 2 * c

\* the array append allocates: the cells of p, then o, then unused cells
grownArray(h, p, o) ==
  [i \in 1..grownCap(capOf(h, p)) |->
     IF i <= p.len THEN h[p.arr][i] ELSE IF i = p.len + 1 THEN o ELSE GoNil]

\* the heap after append(p.items, o): the next cell of the array of p is
\* written where there is one, and a larger array is allocated where not
appendHeap(h, p, o) ==
  IF p.len < capOf(h, p) THEN [h EXCEPT ![p.arr][p.len + 1] = o]
  ELSE Append(h, grownArray(h, p, o))

\* the slice append(p.items, o) returns
appendSlice(h, p, o) ==
  IF p.len < capOf(h, p) THEN [arr |-> p.arr, len |-> p.len + 1]
  ELSE [arr |-> Len(h) + 1, len |-> p.len + 1]

\* (p *Path) Slice(): the segments read through the Path
Slice(h, p) == [i \in 1..p.len |-> h[p.arr][i]]

\* the segments pushed: a key and two indices
Segments == {GoString(nameA), GoInt(0), GoInt(1)}

(***************************************************************************)
(* The program: a template is compiled, an instance is validated against   *)
(* the compiled template, and validated once more.                         *)
(***************************************************************************)
NoResult == [st |-> "none", err |-> NoError]

\* the goroutines that call Validate on the one compiled template
Validators == {1, 2}

\* a goroutine before its call of Validate: at is its position, o the
\* instance, todo the keys its range loop has yet to visit, mand its map of
\* mandatory children not yet seen, res what Validate returns
Idle == [at |-> "idle", o |-> GoNil, todo |-> {}, mand |-> {}, res |-> NoResult]

Init ==
  /\ pc = "start"
  /\ template = NoTemplate
  /\ ct = NoTemplate
  /\ cerr = NoError
  /\ instance = GoNil
  /\ configurator = NoConfigurator
  /\ result = NoResult
  /\ again = NoResult
  /\ dests = InitDests
  /\ calls = <<>>
  /\ validators = [v \in Validators |-> Idle]
  /\ heap = <<>>
  /\ stack = <<NoPath>>
  /\ held = {}

\* ct, err := Compile(t)
DoCompile(t) ==
  /\ pc = "start"
  /\ \E out \in Compile(Val(t)) :
       /\ ct' = out.ct
       /\ cerr' = out.err
       /\ pc' = IF out.err = NoError THEN "compiled" ELSE "failed"
  /\ template' = t
  /\ UNCHANGED <<instance, configurator, result, again, dests, calls>>
  /\ UNCHANGED <<validators, heap, stack, held>>

CompileTemplate == \E t \in ValidationTemplates : DoCompile(t)

\* err := ct.Validate(o, cfg)
DoValidate ==
  /\ pc = "compiled"
  /\ \E o \in Instances, cfg \in Configurators :
       \E out \in Validate(ct, o, cfg, [dests |-> dests, calls |-> calls]) :
         /\ instance' = o
         /\ configurator' = cfg
         /\ result' = [st |-> out.st, err |-> out.err]
         /\ dests' = out.w.dests
         /\ calls' = out.w.calls
  /\ pc' = "validated"
  /\ UNCHANGED <<template, ct, cerr, again>>
  /\ UNCHANGED <<validators, heap, stack, held>>

\* a second ct.Validate(o, cfg) of the same, unmodified instance
Revalidate ==
  /\ pc = "validated"
  /\ \E out \in Validate(ct, instance, configurator, [dests |-> dests, calls |-> calls]) :
       /\ again' = [st |-> out.st, err |-> out.err]
       /\ dests' = out.w.dests
       /\ calls' = out.w.calls
  /\ pc' = "done"
  /\ UNCHANGED <<template, ct, cerr, instance, configurator, result>>
  /\ UNCHANGED <<validators, heap, stack, held>>

Next == CompileTemplate \/ DoValidate \/ Revalidate

Spec == Init /\ [][Next]_vars

(***************************************************************************)
(* Inputs of the compilation runs: grammar strings assembled from child    *)
(* names and modifier texts, well formed and not                           *)
(***************************************************************************)
TokenNames == {<<>>, <<"a">>, <<"b", "1">>}

\* ? ! + * {1,2} {2,} {3,1} {x,1} {1,x} / {1
ModifierTexts ==
  {<<"?">>, <<"!">>, <<"+">>, <<"*">>,
   <<"{", "1", ",", "2", "}">>, <<"{", "2", ",", "}">>, <<"{", "3", ",", "1", "}">>,
   <<"{", "x", ",", "1", "}">>, <<"{", "1", ",", "x", "}">>, <<"/">>, <<"{", "1">>}

\* 99999999999999999999, a number beyond the range of int
txtTooLarge == [i \in 1..20 |-> "9"]

\* {99999999999999999999,} and {1,99999999999999999999}
OverflowRanges ==
  {<<"{">> \o txtTooLarge \o <<",", "}">>, <<"{", "1", ",">> \o txtTooLarge \o <<"}">>}

\* "{}a" and "b?" with a form feed, a vertical tab, U+0085, U+00A0 or a bar
\* between them
SeparatorGrammars ==
  {<<"{", "}", "a", c, "b", "?">> : c \in {"\f", "", "", " ", "|"}}

RECURSIVE ModifierStrings(_)
\* the concatenations of at most n modifier texts
ModifierStrings(n) ==
  IF n = 0 THEN {<<>>}
  ELSE LET prev == ModifierStrings(n - 1)
       IN prev \cup {p \o m : p \in prev, m \in ModifierTexts}

MapTokens == {n \o m : n \in TokenNames, m \in ModifierStrings(MaxMods)}

\* "{}token" and "{}token a?"
MapGrammars ==
  {<<"{", "}">> \o t \o u : t \in MapTokens, u \in {<<>>, <<" ", "a", "?">>}}
    \cup SeparatorGrammars \cup {<<"{", "}", "a">> \o x : x \in OverflowRanges}

\* {1,2} {2,} {3,1} {x,1} {1,x} {3} " {1,3}" ! {1,2}? and the ranges with a
\* bound beyond the range of int
ArraySuffixes ==
  {<<>>, <<"{", "1", ",", "2", "}">>, <<"{", "2", ",", "}">>, <<"{", "3", ",", "1", "}">>,
   <<"{", "x", ",", "1", "}">>, <<"{", "1", ",", "x", "}">>, <<"{", "3", "}">>,
   <<" ", "{", "1", ",", "3", "}">>, <<"!">>, <<"{", "1", ",", "2", "}", "?">>}
    \cup OverflowRanges

ArrayGrammars == {<<"[", "]">> \o n \o x : n \in TokenNames, x \in ArraySuffixes}

RootValues ==
  {Grammar(g) : g \in MapGrammars \cup ArrayGrammars \cup {tyString, <<>>}}
    \cup {Tag("other", tyInt), Tag("ValidatorFunc", "isOneOrTwo"), Tag("func", "isOneOrTwo"),
          Tag("EnumType", fruitPart)}

NoEntries == <<>>

\* further entries of the template: none, a rule for a, an entry named "+",
\* an entry with the empty name, an entry whose value is an int
ExtraEntries ==
  {NoEntries, nameA :> Grammar(tyString), <<"+">> :> Grammar(tyString),
   <<>> :> Grammar(tyString), nameB :> Tag("other", tyInt)}

\* the values that are combined with further entries: string, {}a?, [],
\* {}a{3,1}, an int
FewRootValues ==
  {Grammar(tyString), Grammar(<<"{", "}", "a", "?">>), Grammar(<<"[", "]">>),
   Grammar(<<"{", "}", "a", "{", "3", ",", "1", "}">>), Tag("other", tyInt)}

\* templates of a root entry alone, and templates of an entry named "/" or
\* "r" with one further entry
GrammarTemplates ==
  {Tag("Template", Root :> rv) : rv \in RootValues}
    \cup {Tag("Template", (rk :> rv) @@ extra) :
            rk \in {Root, <<"r">>}, rv \in FewRootValues, extra \in ExtraEntries}

CompileGrammar == \E t \in GrammarTemplates : DoCompile(t)

NextCompile == CompileGrammar

SpecCompile == Init /\ [][NextCompile]_vars

(***************************************************************************)
(* Inputs of the configuration runs: a map with the one child a, whose     *)
(* rule is a pseudotype, a type name, an EnumType or left out, whose value *)
(* is a scalar of any type, and whose handler is a callback or a pointer   *)
(* to one of the caller's variables.                                       *)
(***************************************************************************)
\* "{}a?"
ChildGrammar == <<"{", "}", "a", "?">>

ScalarRules ==
  {<<>>, nameA :> Tag("EnumType", fruitPart)}
    \cup {nameA :> Grammar(g) : g \in {tyNumber, tyInteger, tyString, tyFloat64, tyInt, tyEnum}}

ScalarTemplates == {Tag("Template", (Root :> Grammar(ChildGrammar)) @@ ra) : ra \in ScalarRules}

\* 4 and -4 in every numeric type that holds them; 0, 4.0, 4.5, -4.5 in
\* both floating types and 4.2 as a float64; the ends of int64 and uint64
\* and the powers of two next to them
Numbers ==
  {GoNumber(k, 0, 4) : k \in IntegerKinds}
    \cup {GoNumber(k, 0, -4) : k \in {"int", "int8", "int16", "int32", "int64"}}
    \cup {GoNumber(k, 0, t) : k \in FloatKinds, t \in {0, 40, 45, -45}}
    \cup {GoFloat64(42)}
    \cup {GoNumber(k, 2, -1) : k \in {"int", "int64", "uint", "uint64"}}
    \cup {GoNumber(k, -2, 0) : k \in {"int", "int64"}}
    \cup UNION {{GoNumber(k, 2, 0), GoNumber(k, 4, -1)} : k \in {"uint", "uint64"}}
    \cup {GoNumber(k, u, 0) : k \in FloatKinds, u \in {-4, -2, 1, 2, 4}}

ScalarValues ==
  Numbers
    \cup {GoNil, GoBool(TRUE)}
    \cup {GoString(t) : t \in {<<>>, <<"f">>, <<"p">>, <<"x">>}}
    \cup {EnumTypeNew(fruitPart, <<"r">>), EnumTypeNew(otherPart, <<"p">>), EnumTypeNew(otherPart, <<"x">>)}

ScalarInstances == {GoMap(nameA :> v) : v \in ScalarValues}

ScalarHandlers ==
  {Tag("func", "accept"), Tag("ConfiguratorFunc", "accept"), Tag("nil", 0)}
    \cup {Tag("ptr", d) : d \in {"s", "f", "i"}}
    \cup {Tag("*Enum", d) : d \in {"e", "o"}}

ScalarConfigurators ==
  {NoConfigurator} \cup {Tag("Configurator", nameA :> h) : h \in ScalarHandlers}

CompileRule == \E t \in ScalarTemplates : DoCompile(t)

\* err := ct.Validate(o, cfg) on the inputs of the configuration runs
ConfigureValue ==
  /\ pc = "compiled"
  /\ \E o \in ScalarInstances, cfg \in ScalarConfigurators :
       \E out \in Validate(ct, o, cfg, [dests |-> dests, calls |-> calls]) :
         /\ instance' = o
         /\ configurator' = cfg
         /\ result' = [st |-> out.st, err |-> out.err]
         /\ dests' = out.w.dests
         /\ calls' = out.w.calls
  /\ pc' = "validated"
  /\ UNCHANGED <<template, ct, cerr, again>>
  /\ UNCHANGED <<validators, heap, stack, held>>

NextConfigure == CompileRule \/ ConfigureValue

SpecConfigure == Init /\ [][NextConfigure]_vars

(***************************************************************************)
(* The Path of a validation: validateMap and validateRange push a segment  *)
(* for each child they descend to, and a handler keeps the Path it is      *)
(* called with.                                                            *)
(***************************************************************************)
\* the Path of the frame that is running
currentPath == stack[Len(stack)]

\* validateAndConfigureItem(v, k, configurator, path.push(k)), or the same
\* with the index i of validateRange
Descend ==
  /\ Len(stack) <= MaxDepth
  /\ currentPath.len < capOf(heap, currentPath) \/ Len(heap) < MaxArrays
  /\ \E o \in Segments :
       /\ heap' = appendHeap(heap, currentPath, o)
       /\ stack' = Append(stack, appendSlice(heap, currentPath, o))
  /\ UNCHANGED <<pc, template, ct, cerr, instance, configurator, result, again, dests, calls>>
  /\ UNCHANGED <<validators, held>>

\* the call t(v, path) of a handler that keeps its Path, and the return to
\* the frame of the parent; the handler of "/" is called with Path{} in the
\* root frame, after which Validate returns and the next Validate starts
\* from Path{} again
Handle ==
  /\ held' = held \cup {[path |-> currentPath, segments |-> Slice(heap, currentPath)]}
  /\ stack' = IF Len(stack) > 1 THEN SubSeq(stack, 1, Len(stack) - 1) ELSE stack
  /\ UNCHANGED <<pc, template, ct, cerr, instance, configurator, result, again, dests, calls>>
  /\ UNCHANGED <<validators, heap>>

\* the return from a node without handler
Return ==
  /\ Len(stack) > 1
  /\ stack' = SubSeq(stack, 1, Len(stack) - 1)
  /\ UNCHANGED <<pc, template, ct, cerr, instance, configurator, result, again, dests, calls>>
  /\ UNCHANGED <<validators, heap, held>>

NextPath == Descend \/ Handle \/ Return

SpecPath == Init /\ [][NextPath]_vars

(***************************************************************************)
(* Concurrent validation: the goroutines share the compiled template and   *)
(* each runs validateMap on the root of its own instance, a step for the   *)
(* entry, a step for each key of the range loop and a step for the tail.   *)
(* No configurator is passed.                                              *)
(***************************************************************************)
\* "/": "{}..." with the rules "string" for a and for b
SharedTemplates ==
  {Tag("Template", (Root :> Grammar(g)) @@ (nameA :> Grammar(tyString)) @@ (nameB :> Grammar(tyString))) :
     g \in {r \in RootGrammars : r[1] = "{"}}

\* a non-map, and the maps of strings, numbers and arrays over the keys a, b, z
SharedInstances ==
  {GoNil} \cup MapsOver({nameA, nameB, nameZ}, {GoString(<<"x">>), GoFloat64(10), GoSlice(<<GoString(<<"x">>)>>)})

CompileShared == \E t \in SharedTemplates : DoCompile(t)

\* *opts of the root rule, read from the shared template
rootOptions == Val(Val(ct)[Root])

\* what Validate returns for an outcome
returned(out) == [st |-> out.st, err |-> out.err]

\* the loop that fills mand: the mandatory children of opts
mandatoryOf(opts) == {k \in DOMAIN opts : opts[k].mandatory}

\* a loop body that leaves mand as it is
mandKept(mand, t, k) == mand

\* if t.mandatory { delete(mand, k) }
mandAfter(mand, t, k) == IF t.mandatory THEN mand \ {k} ELSE mand

\* the validation of the child at key k of the map m
childOutcomes(opts, m, k) ==
  IF opts[k].array
  THEN validateRange(Val(ct), m[k], k, opts[k].r, NoConfigurator, <<GoString(k)>>, BeforeValidate)
  ELSE validateAndConfigureItem(Val(ct), m[k], k, NoConfigurator, <<GoString(k)>>, BeforeValidate)

\* the goroutine after the body of the range loop for the key k has ended
\* with the outcome out
visited(g, t, k, out) ==
  IF out.st = "ok"
  THEN [g EXCEPT !.todo = @ \ {k}, !.mand = mandAfter(@, t, k)]
  ELSE [g EXCEPT !.at = "done", !.res = returned(Near(out, Quoted(k)))]

\* ct.Validate(o, nil) up to the range loop of validateMap
Start(v) ==
  /\ pc = "compiled"
  /\ validators[v].at = "idle"
  /\ \E o \in SharedInstances :
       validators' = [validators EXCEPT ![v] =
         IF Kind(o) # "map"
         THEN [@ EXCEPT !.at = "done", !.o = o, !.res = returned(Fail(NewError("ErrExpectedMap"), BeforeValidate))]
         ELSE [@ EXCEPT !.at = "range", !.o = o, !.todo = DOMAIN Val(o), !.mand = mandatoryOf(rootOptions)]]
  /\ UNCHANGED <<pc, template, ct, cerr, instance, configurator, result, again, dests, calls>>
  /\ UNCHANGED <<heap, stack, held>>

\* one turn of "for k, v := range m"
Visit(v) ==
  /\ validators[v].at = "range"
  /\ \E k \in validators[v].todo :
       IF k \notin DOMAIN rootOptions
       THEN validators' = [validators EXCEPT ![v].at = "done",
                             ![v].res = returned(Fail(NewErrorContextQuoted("ErrBadKey", k), BeforeValidate))]
       ELSE \E out \in childOutcomes(rootOptions, Val(validators[v].o), k) :
              validators' = [validators EXCEPT ![v] = visited(@, rootOptions[k], k, out)]
  /\ UNCHANGED <<pc, template, ct, cerr, instance, configurator, result, again, dests, calls>>
  /\ UNCHANGED <<heap, stack, held>>

\* the tail of validateMap, and the return of Validate
Finish(v) ==
  /\ validators[v].at = "range"
  /\ validators[v].todo = {}
  /\ \E out \in missingMandatory(validators[v].mand, BeforeValidate) :
       validators' = [validators EXCEPT ![v].at = "done", ![v].res = returned(out)]
  /\ UNCHANGED <<pc, template, ct, cerr, instance, configurator, result, again, dests, calls>>
  /\ UNCHANGED <<heap, stack, held>>

NextConcurrent ==
  \/ CompileShared
  \/ \E v \in Validators : Start(v)
  \/ \E v \in Validators : Visit(v)
  \/ \E v \in Validators : Finish(v)

SpecConcurrent == Init /\ [][NextConcurrent]_vars

(***************************************************************************)
(* Properties                                                              *)
(***************************************************************************)
\* the map m without the key k
Without(m, k) == [x \in DOMAIN m \ {k} |-> m[x]]

\* every order the runtime may choose leads to success
AlwaysOk(outs) == \A out \in outs : out.st = "ok"

RootIsMapSpec == Kind(ct) = "CompiledTemplate" /\ Kind(Val(ct)[Root]) = "options"

RootIsArraySpec == Kind(ct) = "CompiledTemplate" /\ Kind(Val(ct)[Root]) = "array"

\* C1: map validation is closed-world.  A map validated against a map spec (at
\* the root, or as the value of a child of the root) that holds a key the spec
\* does not name never validates; when the instance without that key
\* validates, the error is BadKey and its context starts with the quoted key.
C1_ClosedWorld ==
  (pc = "validated" /\ RootIsMapSpec /\ Kind(instance) = "map") =>
    LET s == Val(ct)
        opts == Val(s[Root])
        m == Val(instance)
        unknown == DOMAIN m \ DOMAIN opts
        inner == {c \in DOMAIN m \cap DOMAIN opts :
                    ~opts[c].array /\ Kind(s[c]) = "options" /\ Kind(m[c]) = "map"}
    IN /\ unknown # {} => result.st # "ok"
       /\ \A z \in unknown :
            AlwaysOk(Validate(ct, GoMap(Without(m, z)), configurator, BeforeValidate))
              => /\ result.st = "err"
                 /\ result.err.Type = "ErrBadKey"
                 /\ result.err.Context = <<Quoted(z)>>
       /\ \A c \in inner :
            LET unknownIn == DOMAIN Val(m[c]) \ DOMAIN Val(s[c])
            IN /\ unknownIn # {} => result.st # "ok"
               /\ \A z \in unknownIn :
                    AlwaysOk(Validate(ct, GoMap([m EXCEPT ![c] = GoMap(Without(Val(m[c]), z))]),
                                      configurator, BeforeValidate))
                      => /\ result.st = "err"
                         /\ result.err.Type = "ErrBadKey"
                         /\ result.err.Context = <<Quoted(z), Quoted(c)>>

\* an instance {a: ..., z: ...} whose only fault is the unknown key z was
\* rejected with BadKey near 'z'
C1_Witness ==
  /\ pc = "validated" /\ RootIsMapSpec /\ Kind(instance) = "map"
  /\ DOMAIN Val(instance) = {nameA, nameZ}
  /\ result.err.Type = "ErrBadKey" /\ result.err.Context = <<Quoted(nameZ)>>
  /\ AlwaysOk(Validate(ct, GoMap(Without(Val(instance), nameZ)), configurator, BeforeValidate))

\* C2: when every key of the instance is a known child whose value validates,
\* Validate succeeds exactly when no mandatory child is absent; otherwise it
\* fails with MissingMandatory and the supplementary text quotes exactly the
\* mandatory children that are absent.
C2_MissingMandatory ==
  (pc = "validated" /\ RootIsMapSpec /\ Kind(instance) = "map") =>
    LET s == Val(ct)
        opts == Val(s[Root])
        m == Val(instance)
        childOk(k) ==
          AlwaysOk(IF opts[k].array
                   THEN validateRange(s, m[k], k, opts[k].r, configurator,
                                      <<GoString(k)>>, BeforeValidate)
                   ELSE validateAndConfigureItem(s, m[k], k, configurator,
                                                 <<GoString(k)>>, BeforeValidate))
        missing == {k \in DOMAIN opts : opts[k].mandatory /\ k \notin DOMAIN m}
    IN (DOMAIN m \subseteq DOMAIN opts /\ \A k \in DOMAIN m : childOk(k)) =>
         IF missing = {} THEN result.st = "ok"
         ELSE /\ result.st = "err"
              /\ result.err.Type = "ErrMissingMandatory"
              /\ \A c \in DOMAIN opts :
                   Contains(result.err.Supplementary, Quoted(c)) <=> c \in missing

\* the empty map was validated against a spec with two mandatory children and
\* the error names both
C2_Witness ==
  /\ pc = "validated" /\ RootIsMapSpec /\ instance = GoMap(<<>>)
  /\ result.err.Type = "ErrMissingMandatory"
  /\ Contains(result.err.Supplementary, Quoted(nameA))
  /\ Contains(result.err.Supplementary, Quoted(nameB))

\* C3: under the root spec "{}a{1,2}? b" the value of a validates only if it
\* is a sequence of 1 to 2 elements, and a sequence of any other length is
\* rejected with OutOfRange.
C3_ChildRangeEnforced ==
  (/\ pc = "validated"
   /\ Val(template)[Root] = Grammar(<<"{", "}", "a", "{", "1", ",", "2", "}", "?", " ", "b">>)
   /\ Kind(instance) = "map"
   /\ nameA \in DOMAIN Val(instance)) =>
    LET v == Val(instance)[nameA]
        inRange == Kind(v) = "slice" /\ Len(Val(v)) >= 1 /\ Len(Val(v)) <= 2
    IN /\ result.st = "ok" => inRange
       /\ (Kind(v) = "slice" /\ ~inRange /\ DOMAIN Val(instance) = {nameA})
            => result.st = "err" /\ result.err.Type = "ErrOutOfRange"

\* C4: under an array spec "[]x{n,m}" a non-sequence fails with ExpectedArray,
\* a sequence shorter than n or longer than m with OutOfRange; a sequence of
\* n..m elements validates exactly when each element validates against x,
\* and otherwise fails with the error of its first invalid element, to which
\* the frame "index i" is added.
C4_ArraySpec ==
  (pc = "validated" /\ RootIsArraySpec) =>
    LET s == Val(ct)
        arr == Val(s[Root])
        q == Val(instance)
        elem(i) == validateAndConfigureItem(s, q[i], arr.name, configurator,
                                            <<GoInt(i - 1)>>, BeforeValidate)
        bad == {i \in 1..Len(q) : ~AlwaysOk(elem(i))}
        first == CHOOSE i \in bad : \A j \in bad : i <= j
    IN /\ Val(template)[Root] = Grammar(<<"[", "]", "a", "{", "1", ",", "2", "}">>)
            => arr.r = optrange(1, 2)
       /\ IF Kind(instance) # "slice"
          THEN result.st = "err" /\ result.err.Type = "ErrExpectedArray"
          ELSE IF (arr.r.Min # -1 /\ Len(q) < arr.r.Min) \/ (arr.r.Max # -1 /\ Len(q) > arr.r.Max)
          THEN result.st = "err" /\ result.err.Type = "ErrOutOfRange"
          ELSE IF bad = {} THEN result.st = "ok"
          ELSE /\ result.st = "err"
               /\ \E out \in elem(first) :
                    /\ out.st = "err"
                    /\ result.err = AddContext(out.err, txtIndex \o Itoa(first - 1))

\* C5: in a compiled template every child named by a map spec and every
\* element rule named by an array spec has a rule, Unconstrained when the
\* template has no entry for it; so the elements of "[]a", a not being
\* defined, validate whatever they are.
C5_ReferencedNamesRegistered ==
  (Kind(ct) = "CompiledTemplate") =>
    LET s == Val(ct)
    IN /\ \A n \in DOMAIN s :
            /\ Kind(s[n]) = "options" => DOMAIN Val(s[n]) \subseteq DOMAIN s
            /\ Kind(s[n]) = "array" => Val(s[n]).name \in DOMAIN s
            /\ n \notin DOMAIN Val(template) => s[n] = Tag("int", 0)
       /\ (/\ pc = "validated" /\ Kind(s[Root]) = "array"
           /\ Val(s[Root]).name \notin DOMAIN Val(template)
           /\ Kind(instance) = "slice" /\ contains(Val(s[Root]).r, Len(Val(instance))))
            => result.st = "ok"

Decided == pc \in {"compiled", "failed"}

NoRootEntry == Kind(template) = "Template" /\ Root \notin DOMAIN Val(template)

\* C6 as claimed: a template without an entry "/" fails to compile with
\* MissingRoot, whatever its other entries are.
C6_MissingRootAlways ==
  (Decided /\ NoRootEntry) => pc = "failed" /\ ct = NoTemplate /\ cerr.Type = "ErrMissingRoot"

\* C6: a template without an entry "/" never compiles; the error is
\* MissingRoot exactly when each of its entries compiles, and the error of
\* one of the rejected entries otherwise.
C6_MissingRoot ==
  (Decided /\ NoRootEntry) =>
    /\ pc = "failed" /\ ct = NoTemplate
    /\ (\A k \in DOMAIN Val(template) : compileEntry(k, Val(template)[k]).ok)
         => cerr.Type = "ErrMissingRoot"
    /\ (\E k \in DOMAIN Val(template) : ~compileEntry(k, Val(template)[k]).ok)
         => \E k \in DOMAIN Val(template) :
              /\ ~compileEntry(k, Val(template)[k]).ok
              /\ cerr = compileEntry(k, Val(template)[k]).err

\* a template of two well-formed entries, neither of them "/", was rejected
C6_Witness ==
  /\ pc = "failed" /\ NoRootEntry /\ cerr.Type = "ErrMissingRoot"
  /\ DOMAIN Val(template) = {<<"r">>, nameA}

\* a grammar string with a range modifier whose bound is not a number, or
\* whose bounds are inverted
HasBadRange(g) ==
  \E b \in {<<"{", "3", ",", "1", "}">>, <<"{", "x", ",", "1", "}">>, <<"{", "1", ",", "x", "}">>} :
    Contains(g, b)

\* C7: a template whose only entry is a root map or array spec holding such a
\* range modifier, wherever among the modifiers, does not compile, and a
\* compiled range has the bounds the grammar string states.
C7_BadRangeRejected ==
  (/\ Decided /\ Kind(template) = "Template" /\ DOMAIN Val(template) = {Root}
   /\ Kind(Val(template)[Root]) = "string") =>
    LET g == Val(Val(template)[Root])
        isSpec == HasPrefix(g, <<"{", "}">>) \/ HasPrefix(g, <<"[", "]">>)
    IN /\ (isSpec /\ HasBadRange(g)) => pc = "failed"
       /\ \A n \in TokenNames \ {<<>>} :
            /\ (pc = "compiled" /\ g = <<"{", "}">> \o n \o <<"{", "1", ",", "2", "}">>)
                 => Val(Val(ct)[Root])[n].r = optrange(1, 2)
            /\ (pc = "compiled" /\ g = <<"{", "}">> \o n \o <<"{", "2", ",", "}">>)
                 => Val(Val(ct)[Root])[n].r = optrange(2, -1)
            /\ (pc = "compiled" /\ g = <<"[", "]">> \o n \o <<"{", "1", ",", "2", "}">>)
                 => Val(Val(ct)[Root]).r = optrange(1, 2)

\* a template key that is neither "/" nor a non-empty string of word characters
BadName(k) == k # Root /\ (k = <<>> \/ \E i \in 1..Len(k) : ~IsWord(k[i]))

\* C8: a template with an entry of such a name does not compile, and the error
\* is BadKey unless another entry is rejected as well.
C8_BadNameRejected ==
  (Decided /\ Kind(template) = "Template") =>
    LET t == Val(template)
        badNames == {k \in DOMAIN t : BadName(k)}
    IN badNames # {} =>
         /\ pc = "failed"
         /\ cerr.Type = "ErrBadKey" \/ \E k \in DOMAIN t \ badNames : ~compileEntry(k, t[k]).ok

\* C9: two Validate calls on the same unmodified instance return the same
\* outcome: both succeed, or both fail with the same kind, text and context.
C9_Deterministic == pc = "done" => again = result

\* C10: after a Validate call that returned an error, of a configurator whose
\* callbacks all accept, every destination holds what it held before the call
\* and no callback has been invoked.
C10_NoPartialResult ==
  (/\ pc = "validated" /\ result.st = "err"
   /\ Kind(configurator) = "Configurator"
   /\ \A n \in DOMAIN Val(configurator) : Val(Val(configurator)[n]) # "reject") =>
    dests = InitDests /\ calls = <<>>

(***************************************************************************)
(* The nodes of an instance, as validateMap and validateRange walk them:   *)
(* each with the name of the rule it is validated under and its path.      *)
(***************************************************************************)
RECURSIVE nodes(_, _, _, _)

Node(pos, o, path) == [rule |-> pos, node |-> o, path |-> path]

\* the elements of the array q, each under the rule pos
elements(s, q, pos, path) ==
  UNION {nodes(s, q[i], pos, push(path, GoInt(i - 1))) : i \in DOMAIN q}

\* the child v at key k of a map whose spec holds the option t for k
member(s, v, k, t, path) ==
  IF ~t.array THEN nodes(s, v, k, path)
  ELSE IF Kind(v) = "slice" THEN elements(s, Val(v), k, path) ELSE {}

nodes(s, o, pos, path) ==
  {Node(pos, o, path)} \cup
    (IF pos \notin DOMAIN s THEN {}
     ELSE CASE Kind(s[pos]) = "options" /\ Kind(o) = "map" ->
                 UNION {member(s, Val(o)[k], k, Val(s[pos])[k], push(path, GoString(k))) :
                          k \in DOMAIN Val(o) \cap DOMAIN Val(s[pos])}
            [] Kind(s[pos]) = "array" /\ Kind(o) = "slice" ->
                 elements(s, Val(o), Val(s[pos]).name, path)
            [] OTHER -> {})

\* whether the configurator holds a callback for the rule pos
hasCallback(cfg, pos) ==
  /\ Kind(cfg) # "nil"
  /\ pos \in DOMAIN Val(cfg)
  /\ Kind(Val(cfg)[pos]) \in {"ConfiguratorFunc", "func"}

\* the nodes among N that a callback of the configurator is due
handled(cfg, N) == {[rule |-> n.rule, path |-> n.path] : n \in {x \in N : hasCallback(cfg, x.rule)}}

\* the first i calls made, each as the rule and the path of its node
fired(log, i) == {[rule |-> log[j].rule, path |-> log[j].path] : j \in 1..i}

\* whether the call i of the log is in order: it is for a node n of the
\* instance that validates, it is the only call for n, every callback due
\* in the subtree of n has fired by then, and an error it returns ends the run
callInOrder(s, cfg, N, log, i, st) ==
  /\ hasCallback(cfg, log[i].rule)
  /\ \E n \in N :
       /\ n.rule = log[i].rule /\ n.path = log[i].path
       /\ AlwaysOk(validateItem(s, n.node, n.rule, NoConfigurator, n.path, BeforeValidate))
       /\ handled(cfg, nodes(s, n.node, n.rule, n.path)) \subseteq fired(log, i)
  /\ \A j \in 1..(i - 1) : log[j].rule # log[i].rule \/ log[j].path # log[i].path
  /\ Val(Val(cfg)[log[i].rule]) = "reject" => i = Len(log) /\ st # "ok"

\* whether the log holds the calls of a validation with the status st, no
\* more and no fewer, children before parents
callsInOrder(s, o, cfg, log, st) ==
  /\ \A i \in DOMAIN log : callInOrder(s, cfg, nodes(s, o, Root, <<>>), log, i, st)
  /\ st = "ok" => handled(cfg, nodes(s, o, Root, <<>>)) \subseteq fired(log, Len(log))

\* C11: a callback is called once for each node whose rule the configurator
\* names with a callback, after the node and all its descendants have been
\* validated and the descendants' callbacks have been called, and never for a
\* node that fails validation or has a failing descendant.
C11_HandlerOrder ==
  pc = "validated" => callsInOrder(Val(ct), instance, configurator, calls, result.st)

\* a validation that succeeds after calling b's callback for the child at
\* the path a.b and then a's callback for its parent at the path a
C11_Witness ==
  /\ pc = "validated" /\ result.st = "ok"
  /\ \E i, j \in DOMAIN calls :
       /\ i < j
       /\ calls[i].path = <<GoString(nameA), GoString(nameB)>>
       /\ calls[j].path = <<GoString(nameA)>>

(***************************************************************************)
(* The context of an error: the frames between the root and the place of   *)
(* the failure.                                                            *)
(***************************************************************************)
\* the context a frame adds for the path segment x: the quoted key of a map
\* frame, "index N" of an array frame
crumb(x) == IF Kind(x) = "string" THEN Quoted(Val(x)) ELSE txtIndex \o Itoa(Val(x)[2])

\* the segments of a path as contexts, from the root down
crumbs(path) == [i \in DOMAIN path |-> crumb(path[i])]

Reverse(q) == [i \in DOMAIN q |-> q[Len(q) + 1 - i]]

\* the array-valued children of the maps among the nodes N, each with the
\* range its option asks for
arrayMembers(s, N) ==
  UNION {{[rule |-> k, node |-> Val(n.node)[k], path |-> push(n.path, GoString(k)),
           r |-> Val(s[n.rule])[k].r] :
            k \in {x \in DOMAIN Val(n.node) \cap DOMAIN Val(s[n.rule]) : Val(s[n.rule])[x].array}} :
         n \in {x \in N : x.rule \in DOMAIN s /\ Kind(s[x.rule]) = "options" /\ Kind(x.node) = "map"}}

\* the errors raised at the node n itself when it is validated alone: those
\* without context, and ErrBadKey with the key n does not allow
raisedAt(outs) ==
  {out.err : out \in {x \in outs : x.st = "err" /\ (x.err.Context = <<>> \/ x.err.Type = "ErrBadKey")}}

\* whether e is the error local with the context list ctx, in the list it
\* holds and in the text of Error()
isErrorAt(e, local, ctx) ==
  /\ e.Type = local.Type /\ e.Supplementary = local.Supplementary
  /\ e.Context = ctx
  /\ Error(e) = errorText(e, mainText(local), ctx)

\* the context list of the error local raised at the path: its own context
\* and one context for each frame of the path
contextAt(local, path, outermostFirst) ==
  IF outermostFirst THEN crumbs(path) \o local.Context
  ELSE local.Context \o Reverse(crumbs(path))

\* whether the error e of a validation is raised at one of its nodes or
\* array-valued children, with one context for each frame above it
located(s, o, cfg, e, outermostFirst, N) ==
  \/ \E n \in N :
       \E local \in raisedAt(validateAndConfigureItem(s, n.node, n.rule, cfg, n.path, BeforeValidate)) :
         isErrorAt(e, local, contextAt(local, n.path, outermostFirst))
  \/ \E n \in arrayMembers(s, N) :
       \E local \in raisedAt(validateRange(s, n.node, n.rule, n.r, cfg, n.path, BeforeValidate)) :
         isErrorAt(e, local, contextAt(local, n.path, outermostFirst))

\* C18 as stated: the error of a failed validation holds one context for
\* each key and index on the path from the root to the failing node, and the
\* list and the text of Error() read from the outermost to the innermost.
C18_ContextOutermostFirst ==
  pc = "validated" /\ result.st = "err" =>
    located(Val(ct), instance, configurator, result.err, TRUE, nodes(Val(ct), instance, Root, <<>>))

\* C18 amended: the error of a failed validation holds one context for each
\* key and index on the path from the root to the failing node, and the list
\* and the text of Error() read from the innermost to the outermost.
C18_ContextInnermostFirst ==
  pc = "validated" /\ result.st = "err" =>
    located(Val(ct), instance, configurator, result.err, FALSE, nodes(Val(ct), instance, Root, <<>>))

\* a validation failing at the child b of the child a, with the contexts 'b'
\* and 'a' in this order
C18_Witness ==
  /\ pc = "validated" /\ result.st = "err"
  /\ result.err.Context = <<Quoted(nameB), Quoted(nameA)>>

(***************************************************************************)
(* The value a handler is handed, in the configuration runs                *)
(***************************************************************************)
\* the value of the child a of the instance
childValue == Val(instance)[nameA]

\* the rule of the child a in the template, nil where it has none
childRule == IF nameA \in DOMAIN Val(template) THEN Val(template)[nameA] ELSE GoNil

\* the handler of the child a in the configurator, nil where it has none
childHandler ==
  IF Kind(configurator) = "nil" \/ nameA \notin DOMAIN Val(configurator) THEN GoNil
  ELSE Val(configurator)[nameA]

\* whether the validation of the child a has run
childValidated == pc = "validated" /\ Kind(instance) = "map" /\ nameA \in DOMAIN Val(instance)

\* whether the validation has handed the child a to a callback or stored it
\* in a destination
childHanded ==
  /\ childValidated
  /\ \/ Kind(childHandler) \in {"ConfiguratorFunc", "func"} /\ calls # <<>>
     \/ Kind(childHandler) \in {"ptr", "*Enum"} /\ result.st = "ok"

\* the value the callback was called with, or the value of the destination
handedValue ==
  IF Kind(childHandler) \in {"ConfiguratorFunc", "func"} THEN calls[1].obj
  ELSE dests[Val(childHandler)]

\* ten times the number a numeric value with a small payload stands for
tenths(o) == IF Kind(o) \in IntegerKinds THEN Val(o)[2] * 10 ELSE Val(o)[2]

\* whether got is the number o as a value of the type kind; the numbers
\* beyond 2^62 in size are compared by type alone
isNumberAs(got, kind, o) ==
  /\ Kind(got) = kind
  /\ Val(o)[1] = 0 => Val(got)[1] = 0 /\ tenths(got) = tenths(o)

\* C12: under the rule "number" a handler is handed a float64 and under the
\* rule "integer" an int, whatever numeric type the instance holds the value
\* in; under any other rule that is not an EnumType it is handed the value
\* of the instance unchanged.
C12_Coercion ==
  childHanded /\ Kind(childHandler) # "*Enum" =>
    CASE childRule = Grammar(tyNumber) -> isNumberAs(handedValue, "float64", childValue)
      [] childRule = Grammar(tyInteger) -> isNumberAs(handedValue, "int", childValue)
      [] Kind(childRule) = "EnumType" -> TRUE
      [] OTHER -> handedValue = childValue

\* a callback handed float64 4 for the int8 4 under "number", and an int
\* destination set to 4 for the float32 4.0 under "integer"
C12_Witness ==
  /\ childHanded
  /\ \/ /\ childRule = Grammar(tyNumber) /\ childValue = GoNumber("int8", 0, 4)
        /\ calls # <<>> /\ calls[1].obj = GoFloat64(40)
     \/ /\ childRule = Grammar(tyInteger) /\ childValue = GoNumber("float32", 0, 40)
        /\ childHandler = Tag("ptr", "i") /\ dests["i"] = GoInt(4)

\* C13: under an EnumType rule a callback is handed an Enum of the rule's
\* EnumType, never the raw string, and a string destination is refused with
\* ErrBadType.
C13_EnumHanded ==
  childValidated /\ Kind(childRule) = "EnumType" /\ Kind(childValue) = "string"
    /\ EnumTypeHas(Val(childRule), Val(childValue)) =>
      /\ Kind(childHandler) \in {"ConfiguratorFunc", "func"} =>
           calls # <<>> /\ Kind(calls[1].obj) = "Enum" /\ Val(calls[1].obj).Type = Val(childRule)
      /\ childHandler = Tag("ptr", "s") =>
           result.st = "err" /\ result.err.Type = "ErrBadType" /\ dests["s"] = InitDests["s"]

\* whether the child a passes validateItem, whatever the build
childValid ==
  AlwaysOk(validateItem(Val(ct), childValue, nameA, NoConfigurator, <<GoString(nameA)>>, BeforeValidate))

\* whether the pointer d has taken the value v: a value of the type of the
\* destination is stored, any other is refused with ErrBadType and the
\* destination keeps what it held
storedOrRefused(d, v) ==
  IF Kind(InitDests[d]) = Kind(v) THEN result.st = "ok" /\ dests[d] = v
  ELSE result.st = "err" /\ result.err.Type = "ErrBadType" /\ dests[d] = InitDests[d]

\* C14: a pointer destination on a node that validates holds the (coerced)
\* value afterwards when the value has the destination's type, and otherwise
\* Validate fails with ErrBadType and the destination keeps its value; so
\* too under a rule registered as Unconstrained.
C14_Destination ==
  childValidated /\ Kind(childHandler) = "ptr" /\ childValid =>
    storedOrRefused(Val(childHandler), coerce(Val(ct)[nameA], childValue))

\* whether Validate has failed with the error type t and left d as it was
refused(d, t) == result.st = "err" /\ result.err.Type = t /\ dests[d] = InitDests[d]

\* whether the Enum destination d has taken the token: a member of the
\* EnumType of d is set, any other is refused with ErrBadEnumValue
tokenSetOrRefused(d, token) ==
  IF EnumTypeHas(Val(InitDests[d]).Type, token)
  THEN result.st = "ok" /\ dests[d] = EnumTypeNew(Val(InitDests[d]).Type, token)
  ELSE refused(d, "ErrBadEnumValue")

\* C15: an Enum destination on a node that validates takes a string or an
\* Enum value; the token is looked up in the EnumType of the destination,
\* not of the rule, and the destination is set to it when it is a member;
\* Validate fails with ErrBadEnumValue when it is not and with ErrBadType
\* when the value is neither a string nor an Enum, the destination unchanged.
C15_EnumDestination ==
  childValidated /\ Kind(childHandler) = "*Enum" /\ childValid =>
    CASE Kind(childValue) = "string" -> tokenSetOrRefused(Val(childHandler), Val(childValue))
      [] Kind(childValue) = "Enum" -> tokenSetOrRefused(Val(childHandler), EnumString(childValue))
      [] OTHER -> refused(Val(childHandler), "ErrBadType")

\* the Enum of otherPart set to "p", a token the rule fruitPart and the
\* destination share, and the Enum of fruitPart set from an Enum of otherPart
C15_Witness ==
  /\ childValidated /\ result.st = "ok"
  /\ \/ /\ Kind(childRule) = "EnumType" /\ childHandler = Tag("*Enum", "o")
        /\ dests["o"] = EnumTypeNew(otherPart, <<"p">>)
     \/ /\ childValue = EnumTypeNew(otherPart, <<"p">>) /\ childHandler = Tag("*Enum", "e")
        /\ dests["e"] = EnumTypeNew(fruitPart, <<"p">>)

(***************************************************************************)
(* The pseudotypes "number" and "integer"                                  *)
(***************************************************************************)
\* whether the floating value o has no fractional part
noFraction(o) == Val(o)[1] # 0 \/ Val(o)[2] % 10 = 0

\* whether a validation without configurator has run on the child a under
\* the rule t
validatedUnder(t) == childValidated /\ Kind(configurator) = "nil" /\ childRule = Grammar(t)

accepted == result.st = "ok"

rejectedAs(t) == result.st = "err" /\ result.err.Type = t

\* whether "number" has accepted the numeric child and rejected any other
numberRule == IF Kind(childValue) \in NumericKinds THEN accepted ELSE rejectedAs("ErrBadType")

\* C19 as stated: "integer" accepts every value of an integer type and every
\* floating value without fractional part, and rejects every other value
\* with ErrBadType; "number" accepts every numeric value and rejects every
\* other value with ErrBadType.
C19_NumericRules ==
  /\ validatedUnder(tyInteger) =>
       IF Kind(childValue) \in IntegerKinds \/ (Kind(childValue) \in FloatKinds /\ noFraction(childValue))
       THEN accepted ELSE rejectedAs("ErrBadType")
  /\ validatedUnder(tyNumber) => numberRule

\* C19 amended: "integer" accepts every value of an integer type and every
\* floating value without fractional part from -2^63 up to but not including
\* 2^63; it rejects with ErrBadType every floating value with a fractional
\* part, every floating value beyond 2^63 in size and every non-numeric
\* value; the floating value 2^63 itself is accepted by some builds and
\* rejected by others.  "number" is as stated.
C19_NumericRulesInRange ==
  /\ validatedUnder(tyInteger) =>
       CASE Kind(childValue) \in IntegerKinds -> accepted
         [] Kind(childValue) \in FloatKinds /\ Val(childValue) = Num(2, 0) ->
              accepted \/ rejectedAs("ErrBadType")
         [] Kind(childValue) \in FloatKinds /\ noFraction(childValue) /\ fitsInt(Val(childValue)) ->
              accepted
         [] OTHER -> rejectedAs("ErrBadType")
  /\ validatedUnder(tyNumber) => numberRule

\* the float64 2^64, which has no fractional part, rejected under "integer"
C19_Witness ==
  /\ validatedUnder(tyInteger)
  /\ childValue = GoNumber("float64", 4, 0)
  /\ rejectedAs("ErrBadType")

\* the tokens an EnumType was made with
registeredTokens(et) == {et.toString[i] : i \in 1..et.items}

\* C20: under an EnumType rule, a validation without configurator succeeds
\* exactly when the value is a string equal to a registered token of the
\* type; any other string fails with ErrBadEnumValue and a value that is not
\* a string fails with ErrBadType.
C20_EnumRule ==
  childValidated /\ Kind(configurator) = "nil" /\ Kind(childRule) = "EnumType" =>
    CASE Kind(childValue) # "string" -> rejectedAs("ErrBadType")
      [] Val(childValue) \in registeredTokens(Val(childRule)) -> accepted
      [] OTHER -> rejectedAs("ErrBadEnumValue")

\* the string "x", no token of fruitPart, refused with ErrBadEnumValue
C20_Witness ==
  /\ childValidated /\ Kind(configurator) = "nil" /\ childRule = Tag("EnumType", fruitPart)
  /\ childValue = GoString(<<"x">>)
  /\ rejectedAs("ErrBadEnumValue")

\* C16: a Path is immutable once produced: the Path a handler has kept has
\* the segments it was handed with after every later push, for a sibling or
\* a later element, at every depth.
C16_PathImmutable == \A h \in held : Slice(heap, h.path) = h.segments

\* the results Validate may return for the instance o when it runs alone
aloneResults(o) == {returned(out) : out \in Validate(ct, o, NoConfigurator, BeforeValidate)}

\* the compiled templates Compile produces for the template
compiledOf(t) == {out.ct : out \in {x \in Compile(Val(t)) : x.err = NoError}}

\* C17: Validate does not modify the compiled template, and in every
\* interleaving of concurrent Validate calls on one compiled template each
\* call returns a result it can return when it runs alone.
C17_ConcurrentValidate ==
  pc = "compiled" =>
    /\ ct \in compiledOf(template)
    /\ \A v \in Validators :
         validators[v].at = "done" => validators[v].res \in aloneResults(validators[v].o)

\* two calls that have both returned, one with success and one with
\* ErrMissingMandatory, for different instances
C17_Witness ==
  /\ validators[1].at = "done" /\ validators[2].at = "done"
  /\ validators[1].o # validators[2].o
  /\ validators[1].res.st = "ok"
  /\ validators[2].res.st = "err" /\ validators[2].res.err.Type = "ErrMissingMandatory"

\* C21: Validate returns success or a CdlError and never panics; a null
\* value under a type-name rule or handed to a pointer destination is
\* refused with ErrBadType.
C21_NoPanic ==
  childValidated =>
    /\ result.st # "panic"
    /\ childValue = GoNil /\ childRule \in {Grammar(tyString), Grammar(tyFloat64), Grammar(tyInt), Grammar(tyEnum)} =>
         rejectedAs("ErrBadType")
    /\ childValue = GoNil /\ childRule = GoNil /\ Kind(childHandler) = "ptr" =>
         rejectedAs("ErrBadType")

(***************************************************************************)
(* The Path a callback is called with                                      *)
(***************************************************************************)
RECURSIVE valueAt(_, _)

Absent == Tag("absent", 0)

\* the value found in the instance o by following the keys and indices of
\* the path from its first segment on
valueAt(o, path) ==
  IF path = <<>> THEN o
  ELSE IF Kind(path[1]) = "string" /\ Kind(o) = "map" /\ Val(path[1]) \in DOMAIN Val(o)
  THEN valueAt(Val(o)[Val(path[1])], Tail(path))
  ELSE IF Kind(path[1]) = "int" /\ Kind(o) = "slice" /\ Val(path[1])[1] = 0
            /\ Val(path[1])[2] + 1 \in DOMAIN Val(o)
  THEN valueAt(Val(o)[Val(path[1])[2] + 1], Tail(path))
  ELSE Absent

\* the keys among the segments of a path
keysOf(path) == SelectSeq(path, LAMBDA x : Kind(x) = "string")

\* the rule of the node a path leads to: the root rule for the empty path,
\* the last key where there is one, and the element rule of the root array
\* for an index alone
ruleAt(s, path) ==
  IF path = <<>> THEN Root
  ELSE IF keysOf(path) # <<>> THEN Val(keysOf(path)[Len(keysOf(path))])
  ELSE Val(s[Root]).name

\* C22: the Path a callback is called with is the sequence of the keys and
\* indices that lead from the root of the instance to the node of the call,
\* the root first: empty for the root, and the key followed by the index for
\* an element of a child with an array modifier.
C22_CallbackPath ==
  pc = "validated" =>
    \A i \in DOMAIN calls :
      /\ valueAt(instance, calls[i].path) = calls[i].obj
      /\ ruleAt(Val(ct), calls[i].path) = calls[i].rule

\* a validation that has called b's callback with the path a.b, a's callback
\* for an element of the array a with the path a.1, or the root's with the
\* empty path after that of a child
C22_Witness ==
  /\ pc = "validated"
  /\ \E i \in DOMAIN calls :
       \/ calls[i].path = <<GoString(nameA), GoString(nameB)>> /\ calls[i].rule = nameB
       \/ calls[i].path = <<GoString(nameA), GoInt(1)>> /\ calls[i].rule = nameA
       \/ calls[i].path = <<>> /\ i > 1

(***************************************************************************)
(* Modifiers of a map-spec token                                           *)
(***************************************************************************)
PresenceModifiers == {<<"?">>, <<"!">>}

\* + * {1,2} {2,}
CardinalityModifiers ==
  {<<"+">>, <<"*">>, <<"{", "1", ",", "2", "}">>, <<"{", "2", ",", "}">>}

\* the sequences of at most MaxMods valid modifiers
ModifierLists ==
  UNION {[1..n -> PresenceModifiers \cup CardinalityModifiers] : n \in 0..MaxMods}

\* the modifiers of ms that are in S, in order
among(ms, S) == SelectSeq(ms, LAMBDA m : m \in S)

\* the requirement of the token name with the one modifier m, as compiled
alone(name, m) == makeOption(name \o m).req

\* the last modifier of a non-empty list
lastOf(ms) == ms[Len(ms)]

\* the requirement in which the last presence modifier of ms has set the
\* presence and the last cardinality modifier of ms the array flag and the
\* range, each as it does when it is the only modifier of the token
lastWins(name, ms) ==
  requirement(
    IF among(ms, PresenceModifiers) = <<>> THEN TRUE
    ELSE alone(name, lastOf(among(ms, PresenceModifiers))).mandatory,
    IF among(ms, CardinalityModifiers) = <<>> THEN FALSE
    ELSE alone(name, lastOf(among(ms, CardinalityModifiers))).array,
    IF among(ms, CardinalityModifiers) = <<>> THEN optrange(-1, -1)
    ELSE alone(name, lastOf(among(ms, CardinalityModifiers))).r)

\* the template whose root is the map spec of the one token name with the
\* modifiers ms
tokenTemplate(name, ms) ==
  Tag("Template", Root :> Grammar(<<"{", "}">> \o name \o Join(ms, <<>>)))

\* C23: a token with several modifiers compiles to the requirement that
\* results from applying them from left to right, the last one winning on
\* each field: the last of ? and ! sets the presence (mandatory without
\* one), the last of +, * and {n,m} sets the array range, and neither kind
\* affects the other, so that a{1,2}? and a?{1,2} compile to the same.
C23_LastModifierWins ==
  \A name \in TokenNames \ {<<>>}, ms \in ModifierLists :
    template = tokenTemplate(name, ms) =>
      /\ pc = "compiled"
      /\ Val(Val(ct)[Root]) = (name :> lastWins(name, ms))

\* the token a?! compiled as mandatory, or a+* compiled with the range of *
C23_Witness ==
  /\ pc = "compiled"
  /\ \/ /\ template = tokenTemplate(nameA, <<<<"?">>, <<"!">>>>)
        /\ Val(Val(ct)[Root])[nameA].mandatory
     \/ /\ template = tokenTemplate(nameA, <<<<"+">>, <<"*">>>>)
        /\ Val(Val(ct)[Root])[nameA].r = optrange(0, -1)

(***************************************************************************)
(* The grammar of a map-spec token                                         *)
(***************************************************************************)
\* the modifier texts that are no modifier: {x,1} {1,x} / {1
JunkTexts ==
  {<<"{", "x", ",", "1", "}">>, <<"{", "1", ",", "x", "}">>, <<"/">>, <<"{", "1">>}

\* the sequences of at most MaxMods modifier texts, valid or not
TextLists == UNION {[1..n -> ModifierTexts] : n \in 0..MaxMods}

hasJunk(ms) == \E i \in DOMAIN ms : ms[i] \in JunkTexts

\* whether Compile has failed with the error type t
compileFailedAs(t) == pc = "failed" /\ cerr.Type = t

\* C24: a map-spec token compiles only if it is a name of word characters
\* followed by valid modifiers and nothing else: a token that does not start
\* with a name fails with ErrBadOptionValue, and a token whose suffix holds
\* text that is no valid modifier, also after a valid modifier, fails with
\* ErrBadOptionModifier.
C24_TokenGrammar ==
  \A name \in TokenNames, ms \in TextLists :
    template = tokenTemplate(name, ms) /\ name \o Join(ms, <<>>) # <<>> =>
      IF name = <<>> THEN compileFailedAs("ErrBadOptionValue")
      ELSE hasJunk(ms) => compileFailedAs("ErrBadOptionModifier")

(***************************************************************************)
(* The grammar of an array spec                                            *)
(***************************************************************************)
arrayTemplate(name, x) == Tag("Template", Root :> Grammar(<<"[", "]">> \o name \o x))

\* the suffixes {1,2} and {2,} and the ranges they denote
RangeSuffixes ==
  (<<"{", "1", ",", "2", "}">> :> optrange(1, 2)) @@ (<<"{", "2", ",", "}">> :> optrange(2, -1))

\* C25: an array spec compiles only if "[]" is followed by a name of word
\* characters and then by nothing or by one range {n,m} or {n,} with n <= m;
\* a missing name or any other suffix fails with ErrBadRangeOptionModifier,
\* a range with n > m, or with a bound beyond the range of int, fails with
\* ErrBadRangeOptionModifierValue.
C25_ArrayGrammar ==
  \A name \in TokenNames, x \in ArraySuffixes :
    template = arrayTemplate(name, x) =>
      IF name = <<>> THEN compileFailedAs("ErrBadRangeOptionModifier")
      ELSE IF x = <<>>
      THEN pc = "compiled" /\ Val(ct)[Root] = Tag("array", [name |-> name, r |-> optrange(-1, -1)])
      ELSE IF x \in DOMAIN RangeSuffixes
      THEN pc = "compiled" /\ Val(ct)[Root] = Tag("array", [name |-> name, r |-> RangeSuffixes[x]])
      ELSE IF x = <<"{", "3", ",", "1", "}">> \/ x \in OverflowRanges
      THEN compileFailedAs("ErrBadRangeOptionModifierValue")
      ELSE compileFailedAs("ErrBadRangeOptionModifier")

\* []a{3}, []a {1,3} and []a! were refused as bad range modifiers, []a{3,1}
\* as a bad range value, or []a{1,2} compiled
C25_Witness ==
  \/ /\ compileFailedAs("ErrBadRangeOptionModifier")
     /\ \E x \in {<<"{", "3", "}">>, <<" ", "{", "1", ",", "3", "}">>, <<"!">>} :
          template = arrayTemplate(nameA, x)
  \/ /\ compileFailedAs("ErrBadRangeOptionModifierValue")
     /\ template = arrayTemplate(nameA, <<"{", "3", ",", "1", "}">>)

(***************************************************************************)
(* The ranges of a compiled template                                       *)
(***************************************************************************)
\* the ranges stored in the compiled rule: those of the children of a map
\* spec, that of an array spec
rangesOf(rule) ==
  IF Kind(rule) = "options" THEN {Val(rule)[n].r : n \in DOMAIN Val(rule)}
  ELSE IF Kind(rule) = "array" THEN {Val(rule).r}
  ELSE {}

storedRanges == UNION {rangesOf(Val(ct)[k]) : k \in DOMAIN Val(ct)}

\* C26: every range stored in a compiled template has bounds that are -1 or
\* not negative, and a lower bound that does not exceed the upper bound
\* unless the upper bound is -1.
C26_StoredRanges ==
  pc = "compiled" =>
    \A r \in storedRanges :
      /\ r.Min >= -1
      /\ r.Max >= -1
      /\ r.Max # -1 => r.Min <= r.Max

\* a compiled template that stores a range with both bounds given
C26_Witness ==
  /\ pc = "compiled"
  /\ \E r \in storedRanges : r.Min > 0 /\ r.Max # -1

(***************************************************************************)
(* Enum types built from token lists: the caller builds an EnumType from   *)
(* up to MaxLen tokens, repeats included, makes an Enum of it with New and *)
(* sets it with Set.                                                       *)
(***************************************************************************)
EnumTokens == {<<"f">>, <<"p">>, <<"r">>, <<"x">>}

EnumLists == UNION {[1..n -> EnumTokens] : n \in 0..MaxLen}

\* et := NewEnumType(values...); e = et.New(t), which panics unless t is one
\* of the values
MakeEnum(values, t) ==
  /\ pc = "start"
  /\ pc' = "enum"
  /\ IF EnumTypeHas(NewEnumType(values), t)
     THEN /\ dests' = [dests EXCEPT !.e = EnumTypeNew(NewEnumType(values), t)]
          /\ result' = [st |-> "ok", err |-> NoError]
     ELSE /\ result' = [st |-> "panic", err |-> NoError]
          /\ UNCHANGED dests
  /\ UNCHANGED <<template, ct, cerr, instance, configurator, again, calls>>
  /\ UNCHANGED <<validators, heap, stack, held>>

NewEnum == \E values \in EnumLists, t \in EnumTokens : MakeEnum(values, t)

\* e.Set(v)
SetEnum ==
  /\ pc = "enum"
  /\ result.st = "ok"
  /\ \E v \in EnumTokens :
       dests' = [dests EXCEPT !.e = IF EnumHas(@, v) THEN EnumSet(@, v) ELSE @]
  /\ UNCHANGED <<pc, template, ct, cerr, instance, configurator, result, again, calls>>
  /\ UNCHANGED <<validators, heap, stack, held>>

NextEnum == NewEnum \/ SetEnum

SpecEnum == Init /\ [][NextEnum]_vars

\* the EnumType of the caller's Enum
madeType == Val(dests.e).Type

distinctTokens(et) == {et.toString[i] : i \in 1..Len(et.toString)}

\* C27: for an EnumType built from any list of tokens, repeats included, the
\* lookups from token to index and from index to token are inverse to each
\* other for every index below the item count, the String() of New(t) is t,
\* and the item count is the number of distinct tokens.
C27_EnumLookups ==
  (pc = "enum" /\ result.st = "ok") =>
    /\ \A i \in 0..(madeType.items - 1) : madeType.toValue[madeType.toString[i + 1]] = i
    /\ \A t \in DOMAIN madeType.toValue : madeType.toString[madeType.toValue[t] + 1] = t
    /\ \A t \in DOMAIN madeType.toValue : EnumString(EnumTypeNew(madeType, t)) = t
    /\ madeType.items = Cardinality(distinctTokens(madeType))

(***************************************************************************)
(* The missing mandatory children of a map                                 *)
(***************************************************************************)
\* the nodes below the map node n: those of its children
below(s, n) ==
  UNION {member(s, Val(n.node)[k], k, Val(s[n.rule])[k], push(n.path, GoString(k))) :
           k \in DOMAIN Val(n.node) \cap DOMAIN Val(s[n.rule])}

\* whether the map node n has been gone through without a failure: each of
\* its keys is a child its spec names, each value validates, and every
\* callback due below n is in the log
goneThrough(s, cfg, n, log) ==
  /\ DOMAIN Val(n.node) \subseteq DOMAIN Val(s[n.rule])
  /\ \A k \in DOMAIN Val(n.node) :
       LET t == Val(s[n.rule])[k]
           at == push(n.path, GoString(k))
       IN AlwaysOk(IF t.array
                   THEN validateRange(s, Val(n.node)[k], k, t.r, NoConfigurator, at, BeforeValidate)
                   ELSE validateItem(s, Val(n.node)[k], k, NoConfigurator, at, BeforeValidate))
  /\ handled(cfg, below(s, n)) \subseteq fired(log, Len(log))

\* the map nodes that lack a mandatory child and whose frames give the
\* context ctx to an error raised there
lackingAt(s, N, ctx) ==
  {n \in N : /\ n.rule \in DOMAIN s /\ Kind(s[n.rule]) = "options" /\ Kind(n.node) = "map"
              /\ Reverse(crumbs(n.path)) = ctx
              /\ \E k \in DOMAIN Val(s[n.rule]) :
                   Val(s[n.rule])[k].mandatory /\ k \notin DOMAIN Val(n.node)}

\* C29: ErrMissingMandatory is raised by a map frame only after all the keys
\* present in the map have been gone through: each is a child the spec
\* names, its value has validated and the callbacks below it have been
\* called; a map that holds an unknown key and lacks a mandatory child does
\* not yield ErrMissingMandatory.
C29_MissingMandatoryLast ==
  (pc = "validated" /\ result.st = "err" /\ result.err.Type = "ErrMissingMandatory") =>
    \E n \in lackingAt(Val(ct), nodes(Val(ct), instance, Root, <<>>), result.err.Context) :
      goneThrough(Val(ct), configurator, n, calls)

\* ErrMissingMandatory for a map that holds a key, after a callback was
\* called for the child at that key
C29_Witness ==
  /\ pc = "validated" /\ result.st = "err" /\ result.err.Type = "ErrMissingMandatory"
  /\ \E n \in lackingAt(Val(ct), nodes(Val(ct), instance, Root, <<>>), result.err.Context) :
       /\ DOMAIN Val(n.node) # {}
       /\ handled(configurator, below(Val(ct), n)) # {}

(***************************************************************************)
(* The int handed under "integer"                                          *)
(***************************************************************************)
\* whether the int got is the number the numeric value o stands for
sameNumber(got, o) ==
  /\ Kind(got) = "int"
  /\ Val(got)[1] = Val(o)[1]
  /\ tenths(got) = tenths(o)

\* C30: for every value accepted under "integer", whatever numeric type
\* holds it, the int handed to the handler is numerically equal to the value
\* of the instance: the conversion neither wraps nor changes the sign.
C30_IntegerExact ==
  (childHanded /\ childRule = Grammar(tyInteger) /\ Kind(childHandler) # "*Enum") =>
    sameNumber(handedValue, childValue)

(***************************************************************************)
(* The recursion of Validate, one call or loop iteration at a time.  The   *)
(* stack holds the frames of the calls in progress: a frame "item" is a    *)
(* validateAndConfigureItem about to call validateItem, a frame "back" one *)
(* whose validateItem has called validateMap or validateRange, a frame     *)
(* "map" the range loop of validateMap and a frame "range" that of         *)
(* validateRange.  The templates hold rules that refer to themselves and   *)
(* to each other; no configurator is given.                                *)
(***************************************************************************)
\* "/": "{}a? b?", "a": "{}a? b?", "b": "[]a"
\* "/": "[]a", "a": "[]a"
\* "/": "{}a*", "a": "{}a* b", "b": "string"
CyclicTemplates ==
  {Tag("Template", (Root :> Grammar(<<"{", "}", "a", "?", " ", "b", "?">>))
                     @@ (nameA :> Grammar(<<"{", "}", "a", "?", " ", "b", "?">>))
                     @@ (nameB :> Grammar(<<"[", "]", "a">>))),
   Tag("Template", (Root :> Grammar(<<"[", "]", "a">>)) @@ (nameA :> Grammar(<<"[", "]", "a">>))),
   Tag("Template", (Root :> Grammar(<<"{", "}", "a", "*">>))
                     @@ (nameA :> Grammar(<<"{", "}", "a", "*", " ", "b">>))
                     @@ (nameB :> Grammar(tyString)))}

\* the values that hold v: a map with the child a, one with the children a
\* and b, an array of one and one of two elements
Inside(v) ==
  {GoMap(nameA :> v), GoMap((nameA :> v) @@ (nameB :> GoSlice(<<v>>))),
   GoSlice(<<v>>), GoSlice(<<v, v>>)}

RECURSIVE Nest(_)

\* the instances nested at most d deep
Nest(d) ==
  IF d = 0 THEN {GoString(<<"x">>), GoMap(<<>>), GoSlice(<<>>)}
  ELSE Nest(d - 1) \cup UNION {Inside(v) : v \in Nest(d - 1)}

NestedInstances == Nest(MaxLen)

Frame(at, pos, o, todo, mand, key, i) ==
  [at |-> at, pos |-> pos, o |-> o, todo |-> todo, mand |-> mand, key |-> key, i |-> i]

\* the frame of validateAndConfigureItem(o, pos, ...)
itemFrame(pos, o) == Frame("item", pos, o, {}, {}, <<>>, 0)

\* the frame of validateMap(o, pos, opts, ...) before its range loop
mapFrame(pos, o, opts) == Frame("map", pos, o, DOMAIN Val(o), mandatoryOf(opts), <<>>, 0)

\* the frame of validateRange(o, pos, ...) before its loop
rangeFrame(pos, o) == Frame("range", pos, o, {}, {}, <<>>, 0)

top == stack[Len(stack)]

callers == SubSeq(stack, 1, Len(stack) - 1)

\* the context the frame f adds to an error its callee returns
nearFrame(f, e) ==
  IF f.at = "map" THEN AddContextQuoted(e, f.key)
  ELSE IF f.at = "range" THEN AddContext(e, txtIndex \o Itoa(f.i - 1))
  ELSE e

RECURSIVE unwind(_, _)

\* the error e as it leaves the frames fs, the innermost of which is the last
unwind(e, fs) ==
  IF fs = <<>> THEN e ELSE unwind(nearFrame(fs[Len(fs)], e), SubSeq(fs, 1, Len(fs) - 1))

\* a loop that leaves the key it visits among the keys to visit
leftToVisitAll(todo, k) == todo

\* the keys of the map the range loop has yet to visit once it visits k
leftToVisit(todo, k) == todo \ {k}

\* the frame of validateMap while its loop visits the key k: mand, which is
\* read after the loop only, loses k here
visiting(f, k, opts) ==
  [f EXCEPT !.todo = leftToVisit(f.todo, k), !.key = k,
            !.mand = IF opts[k].mandatory THEN f.mand \ {k} ELSE f.mand]

\* ct, _ := Compile(t); ct.Validate(o, nil) up to the first call of
\* validateAndConfigureItem
StartWalk ==
  /\ pc = "start"
  /\ \E t \in CyclicTemplates, o \in NestedInstances :
       /\ template' = t
       /\ instance' = o
       /\ \E out \in Compile(Val(t)) : out.err = NoError /\ ct' = out.ct
       /\ stack' = <<itemFrame(Root, o)>>
  /\ pc' = "walking"
  /\ UNCHANGED <<cerr, configurator, result, again, dests, calls, validators, heap, held>>

\* the error e returned through all the callers: Validate returns it
failWalk(e) ==
  /\ result' = [st |-> "err", err |-> unwind(e, callers)]
  /\ stack' = <<>>
  /\ pc' = "validated"

\* the return of the top frame without error
returnWalk ==
  /\ stack' = callers
  /\ pc' = IF callers = <<>> THEN "validated" ELSE pc
  /\ result' = IF callers = <<>> THEN [st |-> "ok", err |-> NoError] ELSE result

\* the frames after the top frame, now f, has called g
calling(f, g) == callers \o <<f, g>>

\* validateRange(o, pos, r, ...) called by the frame f, up to its loop
callRange(f, o, pos, r) ==
  IF Kind(o) # "slice" THEN failWalk(nearFrame(f, NewError("ErrExpectedArray")))
  ELSE IF ~contains(r, Len(Val(o)))
  THEN failWalk(nearFrame(f, SetSupplementary(NewError("ErrOutOfRange"),
                                             describeError(r, Len(Val(o))))))
  ELSE stack' = calling(f, rangeFrame(pos, o)) /\ UNCHANGED <<pc, result>>

\* validateItem for a rule that is neither a map spec nor an array spec
leafItem(s, f) ==
  \E out \in validateItem(s, f.o, f.pos, NoConfigurator, <<>>, BeforeValidate) :
    CASE out.st = "ok" -> returnWalk
      [] out.st = "err" -> failWalk(out.err)
      [] OTHER -> result' = [st |-> "panic", err |-> NoError] /\ stack' = <<>> /\ pc' = "validated"

\* validateAndConfigureItem calls validateItem, which calls validateMap or
\* validateRange, or checks a leaf itself
Call ==
  /\ pc = "walking" /\ top.at = "item"
  /\ LET s == Val(ct)
         back == [top EXCEPT !.at = "back"]
     IN IF top.pos \in DOMAIN s /\ Kind(s[top.pos]) = "options"
        THEN IF Kind(top.o) # "map" THEN failWalk(NewError("ErrExpectedMap"))
             ELSE /\ stack' = calling(back, mapFrame(top.pos, top.o, Val(s[top.pos])))
                  /\ UNCHANGED <<pc, result>>
        ELSE IF top.pos \in DOMAIN s /\ Kind(s[top.pos]) = "array"
        THEN callRange(back, top.o, Val(s[top.pos]).name, Val(s[top.pos]).r)
        ELSE leafItem(s, top)
  /\ UNCHANGED <<template, ct, cerr, instance, configurator, again, dests, calls>>
  /\ UNCHANGED <<validators, heap, held>>

\* one iteration of "for k, v := range m" in validateMap, up to the call for v
VisitKey ==
  /\ pc = "walking" /\ top.at = "map" /\ top.todo # {}
  /\ \E k \in top.todo :
       LET opts == Val(Val(ct)[top.pos])
       IN IF k \notin DOMAIN opts THEN failWalk(NewErrorContextQuoted("ErrBadKey", k))
          ELSE IF opts[k].array
          THEN callRange(visiting(top, k, opts), Val(top.o)[k], k, opts[k].r)
          ELSE /\ stack' = calling(visiting(top, k, opts), itemFrame(k, Val(top.o)[k]))
               /\ UNCHANGED <<pc, result>>
  /\ UNCHANGED <<template, ct, cerr, instance, configurator, again, dests, calls>>
  /\ UNCHANGED <<validators, heap, held>>

\* one iteration of "for i, v := range slice" in validateRange, up to the
\* call for v
VisitElement ==
  /\ pc = "walking" /\ top.at = "range" /\ top.i < Len(Val(top.o))
  /\ stack' = calling([top EXCEPT !.i = top.i + 1], itemFrame(top.pos, Val(top.o)[top.i + 1]))
  /\ UNCHANGED <<pc, template, ct, cerr, instance, configurator, result, again, dests, calls>>
  /\ UNCHANGED <<validators, heap, held>>

\* the end of a loop and the return of its function, and the return of a
\* validateAndConfigureItem whose validateItem has returned nil
ReturnWalk ==
  /\ pc = "walking"
  /\ \/ top.at = "back" /\ returnWalk
     \/ top.at = "range" /\ top.i = Len(Val(top.o)) /\ returnWalk
     \/ /\ top.at = "map" /\ top.todo = {}
        /\ \E out \in missingMandatory(top.mand, BeforeValidate) :
             IF out.st = "ok" THEN returnWalk ELSE failWalk(out.err)
  /\ UNCHANGED <<template, ct, cerr, instance, configurator, again, dests, calls>>
  /\ UNCHANGED <<validators, heap, held>>

NextWalk == StartWalk \/ Call \/ VisitKey \/ VisitElement \/ ReturnWalk

SpecWalk == Init /\ [][NextWalk]_vars

\* Validate runs on: a call in progress takes its next step
SpecWalkFair == SpecWalk /\ WF_vars(NextWalk)

\* the values held by the map or array o
heldBy(o) ==
  IF Kind(o) = "map" THEN {Val(o)[k] : k \in DOMAIN Val(o)}
  ELSE IF Kind(o) = "slice" THEN {Val(o)[i] : i \in DOMAIN Val(o)}
  ELSE {}

RECURSIVE within(_, _)

\* whether v is a value held by o, directly or at any depth
within(v, o) == \E c \in heldBy(o) : c = v \/ within(v, c)

\* the frames of validateAndConfigureItem on the stack, outermost first
itemFrames == SelectSeq(stack, LAMBDA f : f.at \in {"item", "back"})

\* every call of validateAndConfigureItem in progress is for a value held
\* inside the value of the call that led to it
descends ==
  pc = "walking" =>
    \A j \in 2..Len(itemFrames) : within(itemFrames[j].o, itemFrames[j - 1].o)

\* a Validate that has returned has returned what Validate returns
walkAgrees ==
  pc = "validated" =>
    result \in {returned(out) : out \in Validate(ct, instance, NoConfigurator, BeforeValidate)}

\* C28: Validate terminates for every finite instance and every compiled
\* template, rules that refer to themselves or to each other included: each
\* recursive call is for a value held strictly inside the value of its
\* caller, and every call of Validate returns.
C28_Terminates == []descends /\ (pc = "walking" ~> pc = "validated")

\* a Validate that has returned nil for a map nested three deep along the
\* rule a, which refers to itself
C28_Witness ==
  /\ pc = "validated" /\ result.st = "ok"
  /\ nameA \in DOMAIN Val(template) /\ Val(template)[nameA] = Grammar(<<"{", "}", "a", "?", " ", "b", "?">>)
  /\ instance = GoMap(nameA :> GoMap(nameA :> GoMap(nameA :> GoMap(<<>>))))

====
